---- MODULE Spec2Model ----
(***************************************************************************)
(* Agent Trust Layer: approval store, trust gate, commit boundary,         *)
(* sandbox and tool router, modelled from the TypeScript sources.          *)
(*                                                                         *)
(* Absent values (undefined / null) are the string "NONE".  Identifiers    *)
(* produced by crypto.randomUUID() are modelled by position: a request's   *)
(* id is its index in the store, which is also its creation order.         *)
(* Time is in seconds.                                                     *)
(***************************************************************************)
EXTENDS Integers, Sequences, FiniteSets, TLC

VARIABLES
    requests,      \* InMemoryApprovalStore.requests, in insertion order
    decisions,     \* InMemoryApprovalStore.decisions: request id -> decision
    now,           \* the wall clock read by new Date() / Date.now()
    last,          \* outcome of the operation that was observed last
    calls,         \* store operations suspended at an await, per caller
    router,        \* what the ToolRouter was constructed with
    events,        \* InMemoryEventLogger.events, the audit log
    dockerDaemon,  \* the Docker installation the sandbox probes
    dockerCache,   \* DockerSandbox.dockerAvailabilityCache and its time
    stagedChanges, \* the sandbox's stagedChanges: sandbox id -> number staged
    workflowRun,   \* the runWorkflow invocation of the AgentOrchestrator
    adapters,      \* DomainAdapterRegistry.adapters: domain -> adapter
    registeredTools \* ToolRouter.tools and handlers as filled by registerTool

storeVars == <<requests, decisions, now, last, calls>>

routerVars == <<router, events, dockerDaemon, dockerCache, stagedChanges>>

vars == <<requests, decisions, now, last, calls,
          router, events, dockerDaemon, dockerCache, stagedChanges, workflowRun,
          adapters, registeredTools>>

-----------------------------------------------------------------------------
(* Bounds of the model                                                     *)

\* Largest number of approval requests ever created.
MaxReq == 2

\* The instants at which the clock is observed.
ClockValues == {0, 3600, 7200, 90000}

\* Concurrent callers of the store.
Callers == {"c1", "c2"}

-----------------------------------------------------------------------------
(* Schema & taxonomy                                                       *)

TRUST_ORDER == <<"L0", "L1", "L2", "L3", "L4">>

TrustLevels == {TRUST_ORDER[i] : i \in 1..Len(TRUST_ORDER)}

\* TRUST_ORDER.indexOf(level)
TrustIndex(level) == CHOOSE i \in 1..Len(TRUST_ORDER) : TRUST_ORDER[i] = level

\* The run ids that are well-formed UUIDs.
Uuids == {"run-1", "run-2"}

-----------------------------------------------------------------------------
(* Approval store (InMemoryApprovalStore)                                  *)

AUTO_APPROVE_DENY_LIST ==
    {"COMMIT_SEND_INVOICE", "COMMIT_MARK_CHECKPOINT_COMPLETE",
     "billing_reconciliation", "compliance_audit_pack"}

AUTO_APPROVE_ALLOW_LIST ==
    {"COMMIT_POST_ALERT", "COMMIT_PUBLISH_DAILY_BRIEF", "COMMIT_APPLY_CHANGES",
     "daily_ops_brief", "alert_triage"}

DEFAULT_EXPIRY_L3 == 3600

DEFAULT_EXPIRY_L4 == 86400

\* an eligibility that consults the allow list only
IsAutoApproveEligibleNoDenyList(trustLevel, actionType, workflowName, reviewerVerdict) ==
    IF trustLevel = "L4" THEN FALSE
    ELSE IF trustLevel # "L3" THEN FALSE
    ELSE IF reviewerVerdict # "PASS" THEN FALSE
    ELSE IF actionType \in AUTO_APPROVE_ALLOW_LIST
            \/ workflowName \in AUTO_APPROVE_ALLOW_LIST THEN TRUE
    ELSE FALSE

IsAutoApproveEligible(trustLevel, actionType, workflowName, reviewerVerdict) ==
    IF trustLevel = "L4" THEN FALSE
    ELSE IF trustLevel # "L3" THEN FALSE
    ELSE IF reviewerVerdict # "PASS" THEN FALSE
    ELSE IF actionType \in AUTO_APPROVE_DENY_LIST
            \/ workflowName \in AUTO_APPROVE_DENY_LIST THEN FALSE
    ELSE IF actionType \in AUTO_APPROVE_ALLOW_LIST
            \/ workflowName \in AUTO_APPROVE_ALLOW_LIST THEN TRUE
    ELSE FALSE

\* CreateApprovalRequestSchema.parse succeeds
ValidRequestInput(input) ==
    /\ input.runId \in Uuids
    /\ input.workflowName # ""
    /\ input.requestedBy # ""
    /\ input.trustLevel \in TrustLevels
    /\ input.actionType # ""
    /\ input.reviewerVerdict \in {"PASS", "FAIL", "NONE"}

\* The record createRequest stores for a validated input at time t.
\* createRequest without its L4 override: eligibility from verdict and lists
NewRequestNoL4Override(input, t) ==
    [ runId |-> input.runId, workflowName |-> input.workflowName,
      requestedBy |-> input.requestedBy, trustLevel |-> input.trustLevel,
      actionType |-> input.actionType, status |-> "PENDING",
      expiresAt |-> t + (IF input.trustLevel = "L4" THEN DEFAULT_EXPIRY_L4
                                                    ELSE DEFAULT_EXPIRY_L3),
      sandboxId |-> input.sandboxId,
      reviewerVerdict |-> input.reviewerVerdict,
      autoApproveEligible |-> /\ input.reviewerVerdict = "PASS"
                              /\ input.actionType \in AUTO_APPROVE_ALLOW_LIST,
      autoApproveReason |-> "NONE" ]

NewRequest(input, t) ==
    LET isL4 == input.trustLevel = "L4"
        expirySeconds == IF isL4 THEN DEFAULT_EXPIRY_L4 ELSE DEFAULT_EXPIRY_L3
    IN  [ runId               |-> input.runId,
          workflowName        |-> input.workflowName,
          requestedBy         |-> input.requestedBy,
          trustLevel          |-> input.trustLevel,
          actionType          |-> input.actionType,
          status              |-> "PENDING",
          expiresAt           |-> t + expirySeconds,
          sandboxId           |-> input.sandboxId,
          reviewerVerdict     |-> input.reviewerVerdict,
          autoApproveEligible |->
              IF isL4 THEN FALSE
              ELSE IsAutoApproveEligible(input.trustLevel, input.actionType,
                                         input.workflowName, input.reviewerVerdict),
          autoApproveReason   |-> "NONE" ]

\* getRequest(id) finds a request
HasRequest(reqs, id) == id \in 1..Len(reqs)

\* new Date(request.expiresAt) < new Date()
IsExpired(r, t) == r.expiresAt < t

\* getRequestsByRunId: the ids of the run's requests, oldest first
GetRequestsByRunId(reqs, runId) ==
    SelectSeq([i \in 1..Len(reqs) |-> i], LAMBDA i : reqs[i].runId = runId)

\* getPendingRequests (no filter): the ids returned
GetPendingRequests(reqs, t) ==
    {i \in 1..Len(reqs) : reqs[i].status = "PENDING" /\ reqs[i].expiresAt > t}

\* isPending(id)
IsPending(reqs, t, id) ==
    /\ HasRequest(reqs, id)
    /\ reqs[id].status = "PENDING"
    /\ ~IsExpired(reqs[id], t)

\* isApproved(id)
IsApproved(reqs, id) == HasRequest(reqs, id) /\ reqs[id].status = "APPROVED"

\* The part of createDecision after its await: found is what getRequest
\* returned before it.  The result names the error thrown, or "ok".
\* createDecision that checks only that the request exists
DecisionCheckFoundOnly(reqs, decs, t, id, found) ==
    IF ~found THEN "not_found" ELSE "ok"

DecisionCheck(reqs, decs, t, id, found) ==
    IF ~found THEN "not_found"
    ELSE IF reqs[id].status # "PENDING" THEN "bad_status"
    ELSE IF IsExpired(reqs[id], t) THEN "expired"
    ELSE IF id \in DOMAIN decs THEN "already_decided"
    ELSE "ok"

\* The status the simulated database trigger gives the request
StatusFor(decision) == IF decision = "APPROVE" THEN "APPROVED" ELSE "REJECTED"

\* a createDecision that stores the decision and leaves the status alone
RequestsAfterDecisionNoStatus(reqs, id, decision) == reqs

RequestsAfterDecision(reqs, id, decision) ==
    [reqs EXCEPT ![id].status = StatusFor(decision)]

DecisionsAfterDecision(decs, id, decidedBy, decision) ==
    [i \in DOMAIN decs \cup {id} |->
        IF i = id THEN [decidedBy |-> decidedBy, decision |-> decision] ELSE decs[i]]

\* The gates of autoApprove that follow its lookup; "pass" or the gate that fails
\* autoApprove without its eligibility gate
AutoApproveGateNoEligibility(reqs, t, id, found) ==
    IF ~found THEN "not_found"
    ELSE IF reqs[id].trustLevel = "L4" THEN "l4"
    ELSE IF reqs[id].status # "PENDING" THEN "not_pending"
    ELSE IF IsExpired(reqs[id], t) THEN "expired"
    ELSE "pass"

AutoApproveGate(reqs, t, id, found) ==
    IF ~found THEN "not_found"
    ELSE IF reqs[id].trustLevel = "L4" THEN "l4"
    ELSE IF reqs[id].status # "PENDING" THEN "not_pending"
    ELSE IF ~reqs[id].autoApproveEligible THEN "not_eligible"
    ELSE IF reqs[id].reviewerVerdict # "PASS" THEN "no_pass"
    ELSE IF IsExpired(reqs[id], t) THEN "expired"
    ELSE "pass"

\* request.autoApproveReason = reason
RequestsWithReason(reqs, id) == [reqs EXCEPT ![id].autoApproveReason = "auto"]

\* expireStaleRequests: the ids it changes
\* an expiry sweep that ignores the status
StaleIdsAnyStatus(reqs, t) ==
    {i \in 1..Len(reqs) : IsExpired(reqs[i], t)}

StaleIds(reqs, t) ==
    {i \in 1..Len(reqs) : reqs[i].status = "PENDING" /\ IsExpired(reqs[i], t)}

\* a sweep that expires every PENDING request, stale or not
RequestsAfterExpiryAllPending(reqs, t) ==
    [i \in 1..Len(reqs) |->
        IF reqs[i].status = "PENDING" THEN [reqs[i] EXCEPT !.status = "EXPIRED"]
        ELSE reqs[i]]

RequestsAfterExpiry(reqs, t) ==
    [i \in 1..Len(reqs) |->
        IF i \in StaleIds(reqs, t) THEN [reqs[i] EXCEPT !.status = "EXPIRED"]
        ELSE reqs[i]]

-----------------------------------------------------------------------------
(* Inputs of the store operations                                          *)

RequestInputs ==
    [ runId           : {"run-1"},
      workflowName    : {"test_workflow"},
      requestedBy     : {"worker"},
      trustLevel      : {"L3", "L4"},
      actionType      : {"COMMIT_POST_ALERT"},
      sandboxId       : {"NONE"},
      reviewerVerdict : {"PASS", "FAIL"} ]
    \cup
    [ runId           : {"run-1", "not-a-uuid"},
      workflowName    : {"test_workflow"},
      requestedBy     : {"worker"},
      trustLevel      : {"L3"},
      actionType      : {"COMMIT_SEND_INVOICE"},
      sandboxId       : {"NONE"},
      reviewerVerdict : {"PASS"} ]

\* the requests the interleaved operations work on
AsyncRequestInputs ==
    [ runId           : {"run-1"},
      workflowName    : {"test_workflow"},
      requestedBy     : {"worker"},
      trustLevel      : {"L3", "L4"},
      actionType      : {"COMMIT_POST_ALERT"},
      sandboxId       : {"NONE"},
      reviewerVerdict : {"PASS"} ]

AsyncClockValues == {7200}

RequestIds == 1..MaxReq

Deciders == {"human:alice"}

DecisionTypes == {"APPROVE", "REJECT"}

NoOp == [op |-> "none", id |-> 0, outcome |-> "none"]

\* no runWorkflow invocation
NoRun == [pc |-> "idle"]

Idle == [pc |-> "idle", id |-> 0, decidedBy |-> "NONE", decision |-> "NONE",
         found |-> FALSE]

-----------------------------------------------------------------------------
(* Store operations, each run to completion                                *)

NoRouter == [store |-> FALSE, boundary |-> FALSE, sandbox |-> "none"]

NoCache == [known |-> FALSE, value |-> FALSE, time |-> 0]

\* a store on its own: no router, no sandbox
InitStore ==
    /\ requests = <<>>
    /\ decisions = <<>>
    /\ now = 0
    /\ last = NoOp
    /\ calls = [c \in Callers |-> Idle]
    /\ router = NoRouter
    /\ events = <<>>
    /\ dockerDaemon = "available"
    /\ dockerCache = NoCache
    /\ stagedChanges = <<>>
    /\ workflowRun = NoRun
    /\ adapters = <<>>
    /\ registeredTools = <<>>

\* Time passes: the clock reads t from now on.
Tick(t) ==
    /\ t > now
    /\ now' = t
    /\ UNCHANGED <<registeredTools, adapters, workflowRun, requests, decisions, last, calls, routerVars>>

\* the caller's view of a finished operation, kept when it is observed
Observe(observed, result) == last' = IF observed THEN result ELSE last

CreateRequest(input, observed) ==
    /\ Len(requests) < MaxReq
    /\ IF ValidRequestInput(input)
       THEN /\ requests' = Append(requests, NewRequest(input, now))
            /\ Observe(observed, [op |-> "createRequest", id |-> Len(requests) + 1,
                                  outcome |-> "created"])
       ELSE /\ requests' = requests
            /\ Observe(observed, [op |-> "createRequest", id |-> 0,
                                  outcome |-> "throw"])
    /\ UNCHANGED <<registeredTools, adapters, workflowRun, decisions, now, calls, routerVars>>

ExpireStaleRequests(observed) ==
    /\ requests' = RequestsAfterExpiry(requests, now)
    /\ Observe(observed, [op |-> "expireStaleRequests", id |-> 0,
                          outcome |-> Cardinality(StaleIds(requests, now))])
    /\ UNCHANGED <<registeredTools, adapters, workflowRun, decisions, now, calls, routerVars>>

\* createDecision from the state (reqs, decs): the state and outcome it leaves
DecisionStep(reqs, decs, t, id, decidedBy, decision, found) ==
    LET chk == DecisionCheck(reqs, decs, t, id, found)
    IN  IF chk = "ok"
        THEN [reqs |-> RequestsAfterDecision(reqs, id, decision),
              decs |-> DecisionsAfterDecision(decs, id, decidedBy, decision),
              outcome |-> "decision"]
        ELSE [reqs |-> reqs, decs |-> decs, outcome |-> chk]

CreateDecision(id, decidedBy, decision, observed) ==
    LET s == DecisionStep(requests, decisions, now, id, decidedBy, decision,
                          HasRequest(requests, id))
    IN  /\ requests' = s.reqs
        /\ decisions' = s.decs
        /\ Observe(observed, [op |-> "createDecision", id |-> id,
                              outcome |-> s.outcome])
        /\ UNCHANGED <<registeredTools, adapters, workflowRun, now, calls, routerVars>>

\* autoApprove from the state (reqs, decs), with no other operation in between
AutoApproveStep(reqs, decs, t, id) ==
    LET gate == AutoApproveGate(reqs, t, id, HasRequest(reqs, id))
    IN  IF gate = "not_found"
        THEN [reqs |-> reqs, decs |-> decs, outcome |-> "throw"]
        ELSE IF gate # "pass"
        THEN [reqs |-> reqs, decs |-> decs, outcome |-> "null"]
        ELSE LET s == DecisionStep(RequestsWithReason(reqs, id), decs, t, id,
                                   "system:auto-approve", "APPROVE", TRUE)
             IN  [reqs |-> s.reqs, decs |-> s.decs,
                  outcome |-> IF s.outcome = "decision" THEN "decision" ELSE "throw"]

AutoApprove(id, observed) ==
    LET s == AutoApproveStep(requests, decisions, now, id)
    IN  /\ requests' = s.reqs
        /\ decisions' = s.decs
        /\ Observe(observed, [op |-> "autoApprove", id |-> id,
                              outcome |-> s.outcome])
        /\ UNCHANGED <<registeredTools, adapters, workflowRun, now, calls, routerVars>>

NextStore ==
    \/ \E t \in ClockValues : Tick(t)
    \/ \E input \in RequestInputs : CreateRequest(input, TRUE)
    \/ ExpireStaleRequests(TRUE)
    \/ \E id \in RequestIds, by \in Deciders, d \in DecisionTypes :
           CreateDecision(id, by, d, TRUE)
    \/ \E id \in RequestIds : AutoApprove(id, TRUE)

SpecStore == InitStore /\ [][NextStore]_vars

-----------------------------------------------------------------------------
(* Store operations interleaved at their awaits                            *)

\* createDecision up to `await this.getRequest(...)`
CreateDecisionCall(c, id, decidedBy, decision) ==
    /\ calls[c].pc = "idle"
    /\ calls' = [calls EXCEPT ![c] =
           [pc |-> "createDecision", id |-> id, decidedBy |-> decidedBy,
            decision |-> decision, found |-> HasRequest(requests, id)]]
    /\ UNCHANGED <<registeredTools, adapters, workflowRun, requests, decisions, now, last, routerVars>>

\* createDecision from its await to its return or throw
CreateDecisionResume(c) ==
    /\ calls[c].pc = "createDecision"
    /\ LET a == calls[c]
           s == DecisionStep(requests, decisions, now, a.id, a.decidedBy,
                             a.decision, a.found)
       IN  /\ requests' = s.reqs
           /\ decisions' = s.decs
           /\ last' = [op |-> "createDecision", id |-> a.id, outcome |-> s.outcome]
    /\ calls' = [calls EXCEPT ![c] = Idle]
    /\ UNCHANGED <<registeredTools, adapters, workflowRun, now, routerVars>>

\* autoApprove up to `await this.getRequest(id)`
AutoApproveCall(c, id) ==
    /\ calls[c].pc = "idle"
    /\ calls' = [calls EXCEPT ![c] =
           [pc |-> "autoApprove", id |-> id, decidedBy |-> "NONE",
            decision |-> "NONE", found |-> HasRequest(requests, id)]]
    /\ UNCHANGED <<registeredTools, adapters, workflowRun, requests, decisions, now, last, routerVars>>

\* autoApprove from its await through its gates; when they pass it sets the
\* reason and calls createDecision, which suspends at its own await
AutoApproveGates(c) ==
    /\ calls[c].pc = "autoApprove"
    /\ LET a == calls[c]
           gate == AutoApproveGate(requests, now, a.id, a.found)
       IN  IF gate = "pass"
           THEN /\ requests' = RequestsWithReason(requests, a.id)
                /\ calls' = [calls EXCEPT ![c] =
                       [pc |-> "autoApprove.createDecision", id |-> a.id,
                        decidedBy |-> "system:auto-approve", decision |-> "APPROVE",
                        found |-> HasRequest(requests, a.id)]]
                /\ last' = last
           ELSE /\ requests' = requests
                /\ calls' = [calls EXCEPT ![c] = Idle]
                /\ last' = [op |-> "autoApprove", id |-> a.id,
                            outcome |-> IF gate = "not_found" THEN "throw" ELSE "null"]
    /\ UNCHANGED <<registeredTools, adapters, workflowRun, decisions, now, routerVars>>

\* the createDecision that autoApprove called, from its await on
AutoApproveResume(c) ==
    /\ calls[c].pc = "autoApprove.createDecision"
    /\ LET a == calls[c]
           s == DecisionStep(requests, decisions, now, a.id, a.decidedBy,
                             a.decision, a.found)
       IN  /\ requests' = s.reqs
           /\ decisions' = s.decs
           /\ last' = [op |-> "autoApprove", id |-> a.id,
                       outcome |-> IF s.outcome = "decision" THEN "decision"
                                   ELSE "throw"]
    /\ calls' = [calls EXCEPT ![c] = Idle]
    /\ UNCHANGED <<registeredTools, adapters, workflowRun, now, routerVars>>

NextStoreAsync ==
    \/ \E t \in AsyncClockValues : Tick(t)
    \/ \E input \in AsyncRequestInputs : CreateRequest(input, TRUE)
    \/ ExpireStaleRequests(TRUE)
    \/ \E c \in Callers, id \in RequestIds, by \in Deciders, d \in DecisionTypes :
           CreateDecisionCall(c, id, by, d)
    \/ \E c \in Callers : CreateDecisionResume(c)
    \/ \E c \in Callers, id \in RequestIds : AutoApproveCall(c, id)
    \/ \E c \in Callers : AutoApproveGates(c)
    \/ \E c \in Callers : AutoApproveResume(c)

SpecStoreAsync == InitStore /\ [][NextStoreAsync]_vars


-----------------------------------------------------------------------------
(* Strings                                                                 *)

\* the characters of the strings the model uses
Chars(s) ==
    CASE s = "asi.get_bookings" -> <<"a", "s", "i", ".", "g", "e", "t", "_", "b", "o", "o", "k", "i", "n", "g", "s">>
      [] s = "asi.get_members" -> <<"a", "s", "i", ".", "g", "e", "t", "_", "m", "e", "m", "b", "e", "r", "s">>
      [] s = "asi.stage_booking_create" -> <<"a", "s", "i", ".", "s", "t", "a", "g", "e", "_", "b", "o", "o", "k", "i", "n", "g", "_", "c", "r", "e", "a", "t", "e">>
      [] s = "asi.commit_apply_changes" -> <<"a", "s", "i", ".", "c", "o", "m", "m", "i", "t", "_", "a", "p", "p", "l", "y", "_", "c", "h", "a", "n", "g", "e", "s">>
      [] s = "asi.commit_post_alert" -> <<"a", "s", "i", ".", "c", "o", "m", "m", "i", "t", "_", "p", "o", "s", "t", "_", "a", "l", "e", "r", "t">>
      [] s = "asi.commit_publish_daily_brief" -> <<"a", "s", "i", ".", "c", "o", "m", "m", "i", "t", "_", "p", "u", "b", "l", "i", "s", "h", "_", "d", "a", "i", "l", "y", "_", "b", "r", "i", "e", "f">>
      [] s = "asi.commit_mark_checkpoint_complete" -> <<"a", "s", "i", ".", "c", "o", "m", "m", "i", "t", "_", "m", "a", "r", "k", "_", "c", "h", "e", "c", "k", "p", "o", "i", "n", "t", "_", "c", "o", "m", "p", "l", "e", "t", "e">>
      [] s = "COMMIT_PUBLISH_DAILY_BRIEF" -> <<"C", "O", "M", "M", "I", "T", "_", "P", "U", "B", "L", "I", "S", "H", "_", "D", "A", "I", "L", "Y", "_", "B", "R", "I", "E", "F">>
      [] s = "COMMIT_MARK_CHECKPOINT_COMPLETE" -> <<"C", "O", "M", "M", "I", "T", "_", "M", "A", "R", "K", "_", "C", "H", "E", "C", "K", "P", "O", "I", "N", "T", "_", "C", "O", "M", "P", "L", "E", "T", "E">>
      [] s = "asi.commit_send_invoice" -> <<"a", "s", "i", ".", "c", "o", "m", "m", "i", "t", "_", "s", "e", "n", "d", "_", "i", "n", "v", "o", "i", "c", "e">>
      [] s = "delete_member" -> <<"d", "e", "l", "e", "t", "e", "_", "m", "e", "m", "b", "e", "r">>
      [] s = "asi.not_registered" -> <<"a", "s", "i", ".", "n", "o", "t", "_", "r", "e", "g", "i", "s", "t", "e", "r", "e", "d">>
      [] s = "COMMIT_APPLY_CHANGES" -> <<"C", "O", "M", "M", "I", "T", "_", "A", "P", "P", "L", "Y", "_", "C", "H", "A", "N", "G", "E", "S">>
      [] s = "COMMIT_POST_ALERT" -> <<"C", "O", "M", "M", "I", "T", "_", "P", "O", "S", "T", "_", "A", "L", "E", "R", "T">>
      [] s = "COMMIT_SEND_INVOICE" -> <<"C", "O", "M", "M", "I", "T", "_", "S", "E", "N", "D", "_", "I", "N", "V", "O", "I", "C", "E">>
      [] s = "daily_ops_brief" -> <<"d", "a", "i", "l", "y", "_", "o", "p", "s", "_", "b", "r", "i", "e", "f">>
      [] s = "test_workflow" -> <<"t", "e", "s", "t", "_", "w", "o", "r", "k", "f", "l", "o", "w">>
      [] s = "" -> <<>>

\* String.prototype.includes, on characters
Includes(cs, cu) ==
    \E i \in 0..(Len(cs) - Len(cu)) :
        \A j \in 1..Len(cu) : cs[i + j] = cu[j]

\* name.split(".").pop(): what follows the last dot, the whole name without one
LastSegment(name) ==
    LET cs == Chars(name)
        dots == {i \in 1..Len(cs) : cs[i] = "."}
        start == IF dots = {} THEN 1
                 ELSE (CHOOSE i \in dots : \A j \in dots : j <= i) + 1
    IN  SubSeq(cs, start, Len(cs))

\* actionType.includes(toolName.split(".").pop())
IncludesLastSegment(actionType, toolName) ==
    Includes(Chars(actionType), LastSegment(toolName))

-----------------------------------------------------------------------------
(* Commit tool registry                                                    *)

COMMIT_TOOLS ==
    [ n \in {"asi.commit_apply_changes", "asi.commit_publish_daily_brief",
             "asi.commit_post_alert", "asi.commit_mark_checkpoint_complete",
             "asi.commit_send_invoice"} |->
        CASE n = "asi.commit_apply_changes" ->
               [minTrustLevel |-> "L3", actionType |-> "COMMIT_APPLY_CHANGES",
                autoApproveEligible |-> TRUE]
          [] n = "asi.commit_publish_daily_brief" ->
               [minTrustLevel |-> "L3", actionType |-> "COMMIT_PUBLISH_DAILY_BRIEF",
                autoApproveEligible |-> TRUE]
          [] n = "asi.commit_mark_checkpoint_complete" ->
               [minTrustLevel |-> "L3",
                actionType |-> "COMMIT_MARK_CHECKPOINT_COMPLETE",
                autoApproveEligible |-> FALSE]
          [] n = "asi.commit_post_alert" ->
               [minTrustLevel |-> "L3", actionType |-> "COMMIT_POST_ALERT",
                autoApproveEligible |-> TRUE]
          [] n = "asi.commit_send_invoice" ->
               [minTrustLevel |-> "L4", actionType |-> "COMMIT_SEND_INVOICE",
                autoApproveEligible |-> FALSE] ]

IsCommitTool(toolName) == toolName \in DOMAIN COMMIT_TOOLS

-----------------------------------------------------------------------------
(* Trust gate (DEFAULT_GATES.asi)                                          *)

VALID_STAGES == {"plan", "execute", "review", "commit"}

DEFAULT_STAGE_POLICIES ==
    [ plan    |-> [maxTrustLevel |-> "L1",
                   allowedCapabilities |-> {"READ", "PROPOSE"},
                   sandboxed |-> FALSE, requiresReviewerApproval |-> FALSE],
      execute |-> [maxTrustLevel |-> "L2",
                   allowedCapabilities |-> {"READ", "PROPOSE", "WRITE"},
                   sandboxed |-> TRUE, requiresReviewerApproval |-> FALSE],
      review  |-> [maxTrustLevel |-> "L1",
                   allowedCapabilities |-> {"READ", "PROPOSE"},
                   sandboxed |-> FALSE, requiresReviewerApproval |-> FALSE],
      commit  |-> [maxTrustLevel |-> "L4",
                   allowedCapabilities |-> {"READ", "PROPOSE", "WRITE", "SIDE_EFFECTS"},
                   sandboxed |-> TRUE, requiresReviewerApproval |-> TRUE] ]

requireApprovalAbove == "L2"

sandboxWriteOps == TRUE

toolOverrides ==
    [ n \in {"asi.get_bookings", "asi.get_members", "asi.stage_booking_create",
             "asi.commit_apply_changes", "asi.commit_publish_daily_brief",
             "asi.commit_post_alert", "asi.commit_mark_checkpoint_complete",
             "asi.commit_send_invoice", "delete_member"} |->
        CASE n = "asi.get_bookings" -> "L0"
          [] n = "asi.get_members" -> "L0"
          [] n = "asi.stage_booking_create" -> "L2"
          [] n = "asi.commit_apply_changes" -> "L3"
          [] n = "asi.commit_publish_daily_brief" -> "L3"
          [] n = "asi.commit_post_alert" -> "L3"
          [] n = "asi.commit_mark_checkpoint_complete" -> "L3"
          [] n = "asi.commit_send_invoice" -> "L4"
          [] n = "delete_member" -> "L4" ]

ValidateToolDefinition(tool) == tool.name # ""

ValidateContext(context) == context.agentName # "" /\ context.runId # ""

CreateDenyResult(reason) ==
    [ allowed |-> FALSE, reason |-> reason, requiresApproval |-> FALSE,
      sandboxed |-> FALSE, trustLevel |-> "L4", isCommitTool |-> FALSE,
      requiresReviewerVerdict |-> FALSE, autoApproveEligible |-> FALSE,
      approvalId |-> 0, approvalStatus |-> "NONE" ]

\* a trust level derived from risk and capability alone
TrustLevelForRiskOnly(overrides, tool) ==
    IF tool.risk = "CRITICAL" THEN "L4"
    ELSE IF tool.risk = "HIGH" /\ tool.capability = "SIDE_EFFECTS" THEN "L3"
    ELSE IF tool.risk = "HIGH" \/ tool.capability = "WRITE" THEN "L2"
    ELSE IF tool.capability = "PROPOSE" THEN "L1"
    ELSE "L0"

\* getTrustLevelForTool of a gate whose config.toolOverrides is overrides
TrustLevelFor(overrides, tool) ==
    IF tool.name \in DOMAIN overrides THEN overrides[tool.name]
    ELSE IF tool.risk = "CRITICAL" THEN "L4"
    ELSE IF tool.risk = "HIGH" /\ tool.capability = "SIDE_EFFECTS" THEN "L3"
    ELSE IF tool.risk = "HIGH" \/ tool.capability = "WRITE" THEN "L2"
    ELSE IF tool.capability = "PROPOSE" THEN "L1"
    ELSE "L0"

GetTrustLevelForTool(tool) == TrustLevelFor(toolOverrides, tool)

\* inferTrustLevel of the trust-level taxonomy
InferTrustLevel(risk, capability) ==
    IF risk = "CRITICAL" THEN "L4"
    ELSE IF risk = "HIGH" /\ capability = "SIDE_EFFECTS" THEN "L3"
    ELSE IF risk = "HIGH" \/ capability = "WRITE" THEN "L2"
    ELSE IF capability = "PROPOSE" THEN "L1"
    ELSE "L0"

\* a comparison that finds no level above another
CompareLevelNeverAbove(a, b) == 0

CompareLevel(a, b) == TrustIndex(a) - TrustIndex(b)

ShouldSandbox(tool, stagePolicy) ==
    \/ stagePolicy.sandboxed
    \/ sandboxWriteOps /\ tool.capability \in {"WRITE", "SIDE_EFFECTS"}
    \/ tool.executionMode = "SANDBOX_ONLY"

Evaluate(tool, stage, context) ==
    IF ~ValidateToolDefinition(tool) THEN CreateDenyResult("invalid_tool")
    ELSE IF stage \notin VALID_STAGES THEN CreateDenyResult("invalid_stage")
    ELSE IF ~ValidateContext(context) THEN CreateDenyResult("invalid_context")
    ELSE
    LET stagePolicy == DEFAULT_STAGE_POLICIES[stage]
        trustLevel == GetTrustLevelForTool(tool)
        commitTool == IsCommitTool(tool.name)
        sandboxed == ShouldSandbox(tool, stagePolicy)
        requiresApproval ==
            \/ CompareLevel(trustLevel, requireApprovalAbove) > 0
            \/ stagePolicy.requiresReviewerApproval
            \/ commitTool
        requiresReviewerVerdict == commitTool \/ stagePolicy.requiresReviewerApproval
        autoApproveEligible ==
            /\ trustLevel = "L3"
            /\ commitTool
            /\ COMMIT_TOOLS[tool.name].autoApproveEligible
        denied(reason) ==
            [ allowed |-> FALSE, reason |-> reason, requiresApproval |-> FALSE,
              sandboxed |-> FALSE, trustLevel |-> trustLevel,
              isCommitTool |-> commitTool, requiresReviewerVerdict |-> commitTool,
              autoApproveEligible |-> FALSE,
              approvalId |-> 0, approvalStatus |-> "NONE" ]
    IN  IF CompareLevel(trustLevel, stagePolicy.maxTrustLevel) > 0
        THEN denied("trust_level_exceeds_stage")
        ELSE IF tool.capability \notin stagePolicy.allowedCapabilities
        THEN denied("capability_not_allowed")
        ELSE IF trustLevel = "L4"
        THEN [ allowed |-> FALSE, reason |-> "human_approval_required",
               requiresApproval |-> TRUE, sandboxed |-> sandboxed,
               trustLevel |-> trustLevel, isCommitTool |-> commitTool,
               requiresReviewerVerdict |-> requiresReviewerVerdict,
               autoApproveEligible |-> FALSE,
               approvalId |-> 0, approvalStatus |-> "NONE" ]
        ELSE IF commitTool /\ stage = "commit"
        THEN [ allowed |-> FALSE, reason |-> "commit_requires_approval_check",
               requiresApproval |-> TRUE, sandboxed |-> sandboxed,
               trustLevel |-> trustLevel, isCommitTool |-> TRUE,
               requiresReviewerVerdict |-> TRUE,
               autoApproveEligible |-> autoApproveEligible,
               approvalId |-> 0, approvalStatus |-> "NONE" ]
        ELSE [ allowed |-> TRUE, reason |-> "NONE",
               requiresApproval |-> requiresApproval, sandboxed |-> sandboxed,
               trustLevel |-> trustLevel, isCommitTool |-> commitTool,
               requiresReviewerVerdict |-> requiresReviewerVerdict,
               autoApproveEligible |-> autoApproveEligible,
               approvalId |-> 0, approvalStatus |-> "NONE" ]

\* a lookup that takes the first matching request of any run
RelevantRequestAnyRun(reqs, runId, toolName) ==
    LET ids == {i \in 1..Len(reqs) :
                   \/ reqs[i].actionType = toolName
                   \/ IncludesLastSegment(reqs[i].actionType, toolName)}
    IN  IF ids = {} THEN 0 ELSE CHOOSE i \in ids : \A j \in ids : i <= j

\* a lookup that takes the latest matching request of the run
RelevantRequestLatest(reqs, runId, toolName) ==
    LET ids == {i \in 1..Len(reqs) :
                   /\ reqs[i].runId = runId
                   /\ \/ reqs[i].actionType = toolName
                      \/ IncludesLastSegment(reqs[i].actionType, toolName)}
    IN  IF ids = {} THEN 0 ELSE CHOOSE i \in ids : \A j \in ids : i >= j

\* requests.find(...) of evaluateWithApproval: the first request of the run
\* whose action type is the tool name or includes its last segment; 0 if none
RelevantRequest(reqs, runId, toolName) ==
    LET ids == {i \in 1..Len(reqs) :
                   /\ reqs[i].runId = runId
                   /\ \/ reqs[i].actionType = toolName
                      \/ IncludesLastSegment(reqs[i].actionType, toolName)}
    IN  IF ids = {} THEN 0 ELSE CHOOSE i \in ids : \A j \in ids : i <= j

\* the reviewer verdict check on an approved request
VerdictMissingNever(basicResult, request) == FALSE

VerdictMissing(basicResult, request) ==
    basicResult.requiresReviewerVerdict /\ request.reviewerVerdict # "PASS"

\* evaluateWithApproval that never consults the store
ApprovalResultWithoutStore(basicResult, context, reqs, id, storeState) == basicResult

\* evaluateWithApproval after its basic evaluation; id: the relevant request
\* or 0; storeState: "NONE" without a store, "ok", or "error" when the
\* query throws
ApprovalResult(basicResult, context, reqs, id, storeState) ==
    IF ~basicResult.allowed /\ ~basicResult.requiresApproval THEN basicResult
    ELSE IF ~basicResult.requiresApproval \/ storeState = "NONE" THEN basicResult
    ELSE IF storeState = "error"
    THEN [basicResult EXCEPT !.allowed = FALSE, !.reason = "store_error"]
    ELSE IF id = 0
    THEN [basicResult EXCEPT !.allowed = FALSE,
                             !.reason = "approval_request_required"]
    ELSE IF reqs[id].status = "APPROVED"
    THEN IF VerdictMissing(basicResult, reqs[id])
         THEN [basicResult EXCEPT !.allowed = FALSE, !.reason = "verdict_not_pass",
                                  !.approvalId = id, !.approvalStatus = "APPROVED"]
         ELSE [basicResult EXCEPT !.allowed = TRUE, !.reason = "NONE",
                                  !.approvalId = id, !.approvalStatus = "APPROVED"]
    ELSE IF reqs[id].status = "PENDING"
    THEN IF /\ basicResult.autoApproveEligible
            /\ context.reviewerVerdict = "PASS"
            /\ reqs[id].autoApproveEligible
         THEN [basicResult EXCEPT !.allowed = FALSE,
                                  !.reason = "pending_auto_approve_eligible",
                                  !.approvalId = id, !.approvalStatus = "PENDING",
                                  !.autoApproveEligible = TRUE]
         ELSE [basicResult EXCEPT !.allowed = FALSE,
                                  !.reason = "awaiting_human_approval",
                                  !.approvalId = id, !.approvalStatus = "PENDING"]
    ELSE [basicResult EXCEPT !.allowed = FALSE, !.reason = "approval_not_granted",
                             !.approvalId = id,
                             !.approvalStatus = reqs[id].status]

EvaluateWithApproval(tool, stage, context, reqs, storeState) ==
    ApprovalResult(Evaluate(tool, stage, context), context, reqs,
                   RelevantRequest(reqs, context.runId, tool.name), storeState)

-----------------------------------------------------------------------------
(* Sandbox                                                                 *)

\* DOCKER_CACHE_TTL_MS, in seconds
DOCKER_CACHE_TTL == 30

SandboxKinds == {"docker_fail_closed", "docker_fallback", "passthrough",
                 "fail_closed", "none"}

SandboxIds == {"sb-1", "sb-2"}

\* Most staged changes kept for one sandbox id.
MaxStaged == 2

\* DockerSandbox.validateInput
ValidateInput(input) ==
    input.runId # "" /\ input.toolName # "" /\ input.hasHandler

\* isDockerAvailable: the cached answer while it is fresh, else a probe of
\* the daemon whose answer is cached
IsDockerAvailable(cache, daemon, t) ==
    IF cache.known /\ t - cache.time < DOCKER_CACHE_TTL
    THEN [available |-> cache.value, cache |-> cache]
    ELSE [available |-> daemon = "available",
          cache |-> [known |-> TRUE, value |-> daemon = "available", time |-> t]]

DiagnoseDockerUnavailability(daemon) ==
    IF daemon = "not_running" THEN "Docker daemon is not running"
    ELSE IF daemon = "not_installed" THEN "Docker is not installed"
    ELSE "Unknown Docker issue"

\* createFailClosedResult and the other denials of the sandboxes
SandboxDenial(reason, cache) ==
    [ success |-> FALSE, deniedByPolicy |-> TRUE, failureReason |-> reason,
      handlerInvoked |-> FALSE, staged |-> "none", cache |-> cache ]

\* executeInDocker runs a placeholder script in the container, never the
\* handler; its result carries neither deniedByPolicy nor failureReason
ExecuteInDocker(env, cache, daemon) ==
    [ success |-> daemon = "available" /\ env.dockerRunOk,
      deniedByPolicy |-> FALSE, failureReason |-> "NONE",
      handlerInvoked |-> FALSE, staged |-> "none", cache |-> cache ]

\* executeDirectly calls the handler and stores a staged change on success
ExecuteDirectly(env, cache) ==
    [ success |-> env.handlerOk, deniedByPolicy |-> FALSE,
      failureReason |-> "NONE", handlerInvoked |-> TRUE,
      staged |-> IF env.handlerOk THEN "push" ELSE "none", cache |-> cache ]

ExecuteWithIsolation(failClosed, env, cache, daemon, t) ==
    LET probe == IsDockerAvailable(cache, daemon, t)
    IN  IF probe.available THEN ExecuteInDocker(env, probe.cache, daemon)
        ELSE IF failClosed
        THEN SandboxDenial(
                 IF DiagnoseDockerUnavailability(daemon) = "Docker daemon is not running"
                 THEN "DOCKER_NOT_RUNNING" ELSE "DOCKER_NOT_AVAILABLE",
                 probe.cache)
        ELSE ExecuteDirectly(env, probe.cache)

\* DockerSandbox.execute
DockerExecute(failClosed, input, env, cache, daemon, t) ==
    IF ~ValidateInput(input) THEN SandboxDenial("INVALID_INPUT", cache)
    ELSE IF ~env.mkdirOk THEN SandboxDenial("ARTIFACTS_DIR_CREATION_FAILED", cache)
    ELSE ExecuteWithIsolation(failClosed, env, cache, daemon, t)

\* PassthroughSandbox.execute: calls the handler; a missing or throwing
\* handler is caught
PassthroughExecute(input, env, cache) ==
    LET ok == input.hasHandler /\ env.handlerOk
    IN  [ success |-> ok, deniedByPolicy |-> FALSE, failureReason |-> "NONE",
          handlerInvoked |-> input.hasHandler,
          staged |-> IF ok THEN "set" ELSE "none", cache |-> cache ]

\* FailClosedSandbox.execute
FailClosedExecute(cache) == SandboxDenial("DOCKER_NOT_AVAILABLE", cache)

\* sandbox.execute of the configured sandbox
SandboxExecute(kind, input, env, cache, daemon, t) ==
    CASE kind = "docker_fail_closed" -> DockerExecute(TRUE, input, env, cache, daemon, t)
      [] kind = "docker_fallback" -> DockerExecute(FALSE, input, env, cache, daemon, t)
      [] kind = "passthrough" -> PassthroughExecute(input, env, cache)
      [] kind = "fail_closed" -> FailClosedExecute(cache)

\* getStagedChanges(sandboxId).length
StagedCount(kind, staged, sandboxId) ==
    IF kind = "fail_closed" \/ sandboxId \notin DOMAIN staged THEN 0
    ELSE staged[sandboxId]

\* storeStage pushes a change, PassthroughSandbox replaces the list
StagedAfter(staged, sandboxId, effect) ==
    IF effect = "none" THEN staged
    ELSE [ s \in DOMAIN staged \cup {sandboxId} |->
             IF s # sandboxId THEN staged[s]
             ELSE IF effect = "set" THEN 1
             ELSE StagedCount("docker", staged, sandboxId) + 1 ]

\* input.sandboxId ?? `sandbox-${randomUUID()}`: a given id or an unused one
SandboxIdFor(staged, given) ==
    IF given # "NONE" THEN given
    ELSE IF SandboxIds \ DOMAIN staged = {} THEN "NONE"
    ELSE CHOOSE s \in SandboxIds \ DOMAIN staged : TRUE

-----------------------------------------------------------------------------
(* Event logger                                                            *)

\* validateEvent: domain, trustLevel, stage and intent are always strings here
ValidateEvent(event) ==
    event.workflowName # "" /\ event.agentName # "" /\ event.runId # ""

\* InMemoryEventLogger.log: an invalid event is not stored
EventsAfterLog(evs, event) ==
    IF ValidateEvent(event) THEN Append(evs, event) ELSE evs

-----------------------------------------------------------------------------
(* Commit tool boundary                                                    *)

\* requests.find(...) of verifyCommitEligibility: the first request of the
\* run whose action type is the tool's action type or the tool name; 0 if none
BoundaryRequest(reqs, runId, toolName) ==
    LET ids == {i \in 1..Len(reqs) :
                   /\ reqs[i].runId = runId
                   /\ \/ reqs[i].actionType = COMMIT_TOOLS[toolName].actionType
                      \/ reqs[i].actionType = toolName}
    IN  IF ids = {} THEN 0 ELSE CHOOSE i \in ids : \A j \in ids : i <= j

\* gate 7 of verifyCommitEligibility: approvalRequest.expiresAt < new Date()
CommitExpiredNever(request, t) == FALSE

CommitExpired(request, t) == request.expiresAt < t

\* storeState: "ok", or "error" when getRequestsByRunId throws
VerifyCommitEligibility(runId, toolName, reqs, storeState, kind, staged, t) ==
    LET deny(reason, id) == [eligible |-> FALSE, reason |-> reason, approvalId |-> id]
        id == BoundaryRequest(reqs, runId, toolName)
    IN  IF runId = "" THEN deny("invalid_run_id", 0)
        ELSE IF toolName = "" THEN deny("invalid_tool_name", 0)
        ELSE IF ~IsCommitTool(toolName) THEN deny("not_a_commit_tool", 0)
        ELSE IF storeState = "error" THEN deny("store_error", 0)
        ELSE IF Len(GetRequestsByRunId(reqs, runId)) = 0 THEN deny("no_request_for_run", 0)
        ELSE IF id = 0 THEN deny("no_request_for_action", 0)
        ELSE IF TrustIndex(reqs[id].trustLevel)
                    < TrustIndex(COMMIT_TOOLS[toolName].minTrustLevel)
        THEN deny("trust_below_minimum", id)
        ELSE IF reqs[id].status # "APPROVED" THEN deny("not_approved", id)
        ELSE IF reqs[id].reviewerVerdict # "PASS" THEN deny("verdict_not_pass", id)
        ELSE IF CommitExpired(reqs[id], t) THEN deny("expired", id)
        ELSE IF /\ toolName = "asi.commit_apply_changes"
                /\ reqs[id].sandboxId # "NONE"
                /\ StagedCount(kind, staged, reqs[id].sandboxId) = 0
        THEN deny("no_staged_changes", id)
        ELSE [eligible |-> TRUE, reason |-> "NONE", approvalId |-> id]

-----------------------------------------------------------------------------
(* Tool router                                                             *)

\* Most audit events kept in the log.
MaxEvents == 1

\* the definitions given to registerTool
Tools ==
    [ n \in {"asi.get_bookings", "asi.get_members", "asi.stage_booking_create",
             "asi.commit_post_alert", "asi.commit_send_invoice", "delete_member"} |->
        CASE n = "asi.get_bookings" ->
               [name |-> n, capability |-> "READ", risk |-> "LOW",
                executionMode |-> "DIRECT"]
          [] n = "asi.get_members" ->
               [name |-> n, capability |-> "READ", risk |-> "LOW",
                executionMode |-> "DIRECT"]
          [] n = "asi.stage_booking_create" ->
               [name |-> n, capability |-> "WRITE", risk |-> "MEDIUM",
                executionMode |-> "SANDBOX_ONLY"]
          [] n = "asi.commit_post_alert" ->
               [name |-> n, capability |-> "SIDE_EFFECTS", risk |-> "HIGH",
                executionMode |-> "SANDBOX_ONLY"]
          [] n = "asi.commit_send_invoice" ->
               [name |-> n, capability |-> "SIDE_EFFECTS", risk |-> "CRITICAL",
                executionMode |-> "SANDBOX_ONLY"]
          [] n = "delete_member" ->
               [name |-> n, capability |-> "SIDE_EFFECTS", risk |-> "CRITICAL",
                executionMode |-> "SANDBOX_ONLY"] ]

\* the tools registered with a handler; asi.get_members was given none
Handlers == DOMAIN Tools \ {"asi.get_members"}

\* the trustGateResult of createFailClosedResult and the early denials
FailClosedGate(reason) == CreateDenyResult(reason)

NoSandboxRun ==
    [ success |-> FALSE, deniedByPolicy |-> FALSE, failureReason |-> "NONE",
      handlerInvoked |-> FALSE, staged |-> "none" ]

\* the commit boundary check of call: a commit tool with a configured boundary
\* stops here unless verifyCommitEligibility said eligible
BoundaryDeniesAlwaysPasses(cfg, gate, eligibility) == FALSE

BoundaryDenies(cfg, gate, eligibility) ==
    gate.isCommitTool /\ cfg.boundary /\ ~eligibility.eligible

\* a call that ends before any execution
Stop(outcome, gate, eligible, logs, cache) ==
    [ outcome |-> outcome, gate |-> gate, eligible |-> eligible,
      handlerInvoked |-> FALSE, success |-> FALSE, error |-> gate.reason,
      logs |-> logs, sandboxed |-> FALSE, run |-> NoSandboxRun, cache |-> cache ]

\* the sandboxed execution of call, given what sandbox.execute returned
SandboxedResult(gate, eligible, run) ==
    [ outcome |-> "executed", gate |-> gate, eligible |-> eligible,
      handlerInvoked |-> run.handlerInvoked, success |-> run.success,
      error |-> IF run.success THEN "NONE"
                ELSE IF run.deniedByPolicy THEN run.failureReason
                ELSE "execution_error",
      logs |-> TRUE, sandboxed |-> TRUE,
      run |-> [ success |-> run.success, deniedByPolicy |-> run.deniedByPolicy,
                failureReason |-> run.failureReason,
                handlerInvoked |-> run.handlerInvoked, staged |-> run.staged ],
      cache |-> run.cache ]

\* call from the gate result on: denial, boundary check, execution
GatedCall(cfg, request, env, gate, eligibility, cache, daemon, t) ==
    IF ~gate.allowed THEN Stop("gate_denied", gate, "none", TRUE, cache)
    ELSE IF BoundaryDenies(cfg, gate, eligibility)
    THEN [ Stop("boundary_denied", gate, "no", TRUE, cache)
             EXCEPT !.error = eligibility.reason ]
    ELSE IF gate.sandboxed /\ cfg.sandbox = "none"
    THEN [ Stop("sandbox_missing", gate,
                IF gate.isCommitTool /\ cfg.boundary THEN "yes" ELSE "none",
                TRUE, cache)
             EXCEPT !.sandboxed = TRUE, !.error = "sandbox_missing" ]
    ELSE IF gate.sandboxed
    THEN SandboxedResult(gate,
             IF gate.isCommitTool /\ cfg.boundary THEN "yes" ELSE "none",
             SandboxExecute(cfg.sandbox,
                 [runId |-> request.runId, toolName |-> request.toolName,
                  hasHandler |-> TRUE],
                 env, cache, daemon, t))
    ELSE [ outcome |-> "executed", gate |-> gate,
           eligible |-> IF gate.isCommitTool /\ cfg.boundary THEN "yes" ELSE "none",
           handlerInvoked |-> TRUE, success |-> env.handlerOk,
           error |-> IF env.handlerOk THEN "NONE" ELSE "execution_error",
           logs |-> TRUE, sandboxed |-> FALSE, run |-> NoSandboxRun,
           cache |-> cache ]

\* ToolRouter.call up to its logToolCall: the outcome, the gate result it
\* reports, what the boundary said, what the sandbox did, and whether
\* logToolCall is reached
CallResult(cfg, request, env, reqs, staged, cache, daemon, t) ==
    IF request.toolName = "" \/ ~request.hasContext
    THEN Stop("invalid_request", FailClosedGate("invalid_request"), "none", FALSE, cache)
    ELSE IF request.toolName \notin DOMAIN Tools
    THEN Stop("unknown_tool", FailClosedGate("unknown_tool"), "none", TRUE, cache)
    ELSE IF request.toolName \notin Handlers
    THEN Stop("missing_handler", FailClosedGate("missing_handler"), "none", TRUE, cache)
    ELSE IF /\ cfg.store /\ env.store = "corrupt"
            /\ Evaluate(Tools[request.toolName], request.stage, request).requiresApproval
    THEN Stop("gate_exception", FailClosedGate("gate_exception"), "none", TRUE, cache)
    ELSE GatedCall(cfg, request, env,
             IF cfg.store
             THEN EvaluateWithApproval(Tools[request.toolName], request.stage,
                                       request, reqs, env.store)
             ELSE Evaluate(Tools[request.toolName], request.stage, request),
             VerifyCommitEligibility(request.runId, request.toolName, reqs,
                                     env.boundaryStore, cfg.sandbox, staged, t),
             cache, daemon, t)

\* the event logToolCall builds
ToolCallEvent(request, r) ==
    [ workflowName |-> request.workflowName, agentName |-> request.agentName,
      runId |-> request.runId, trustLevel |-> r.gate.trustLevel,
      stage |-> request.stage, toolName |-> request.toolName,
      failed |-> ~r.success ]

\* logToolCall without its try/catch around logger.log
LogToolCallUncaught(evs, event, logger) ==
    [ events |-> IF logger = "ok" THEN EventsAfterLog(evs, event) ELSE evs,
      threw |-> logger = "throws" ]

\* logToolCall: logger.log inside try/catch; logger is "ok", "throws" when
\* log raises, "rejects" when log returns success: false
LogToolCall(evs, event, logger) ==
    [ events |-> IF logger = "ok" THEN EventsAfterLog(evs, event) ELSE evs,
      threw |-> FALSE ]

\* what call hands back: the result it built, or the exception that escaped
\* logToolCall
Returned(r, log) ==
    IF r.logs /\ log.threw
    THEN [ outcome |-> "exception", success |-> FALSE, error |-> "logger_error" ]
    ELSE [ outcome |-> r.outcome, success |-> r.success, error |-> r.error ]

\* the state after a call whose result is r
CallEffect(request, r, sandboxId, log) ==
    /\ Len(events) < MaxEvents
    /\ sandboxId # "NONE"
    /\ events' = IF r.logs THEN log.events ELSE events
    /\ dockerCache' = r.cache
    /\ stagedChanges' = StagedAfter(stagedChanges, sandboxId, r.run.staged)
    /\ last' = [ op |-> "call", id |-> r.gate.approvalId,
                 outcome |-> Returned(r, log).outcome,
                 request |-> request, gate |-> r.gate, eligible |-> r.eligible,
                 handlerInvoked |-> r.handlerInvoked,
                 success |-> Returned(r, log).success,
                 error |-> Returned(r, log).error,
                 sandboxed |-> r.sandboxed, run |-> r.run,
                 logged |-> events' # events ]
    /\ UNCHANGED <<registeredTools, adapters, workflowRun, requests, decisions, now, calls, router, dockerDaemon>>

\* call once its result r is built: logToolCall, then the return
CallLogged(request, r, env) ==
    CallEffect(request, r, SandboxIdFor(stagedChanges, "NONE"),
               LogToolCall(events, ToolCallEvent(request, r), env.logger))

\* ToolRouter.call
Call(request, env) ==
    CallLogged(request,
               CallResult(router, request, env, requests, stagedChanges,
                          dockerCache, dockerDaemon, now),
               env)

\* sandbox.execute called directly on the router's sandbox
Execute(input, env) ==
    LET run == SandboxExecute(router.sandbox, input, env, dockerCache, dockerDaemon, now)
        sandboxId == SandboxIdFor(stagedChanges, input.sandboxId)
    IN  /\ router.sandbox # "none"
        /\ sandboxId # "NONE"
        /\ StagedCount("docker", stagedChanges, sandboxId) < MaxStaged
        /\ dockerCache' = run.cache
        /\ stagedChanges' = StagedAfter(stagedChanges, sandboxId, run.staged)
        /\ last' = [ op |-> "execute", id |-> 0,
                     outcome |-> IF run.deniedByPolicy THEN "denied" ELSE "ran",
                     input |-> input,
                     run |-> [ success |-> run.success,
                               deniedByPolicy |-> run.deniedByPolicy,
                               failureReason |-> run.failureReason,
                               handlerInvoked |-> run.handlerInvoked,
                               staged |-> run.staged ] ]
        /\ UNCHANGED <<registeredTools, adapters, workflowRun, requests, decisions, now, calls, router, events, dockerDaemon>>

\* the Docker installation changes under the sandbox
DockerChange(daemon) ==
    /\ router.sandbox \in {"docker_fail_closed", "docker_fallback"}
    /\ daemon # dockerDaemon
    /\ dockerDaemon' = daemon
    /\ UNCHANGED <<registeredTools, adapters, workflowRun, requests, decisions, now, last, calls, router, events,
                   dockerCache, stagedChanges>>

-----------------------------------------------------------------------------
(* Inputs                                                                  *)

DockerStates == {"available", "not_running", "not_installed"}

\* the environment of one call: all well, or one fault
NoFault ==
    [ store |-> "ok", boundaryStore |-> "ok", logger |-> "ok", mkdirOk |-> TRUE,
      handlerOk |-> TRUE, dockerRunOk |-> TRUE ]

\* the store raises on every query of the call
StoreError == [NoFault EXCEPT !.store = "error", !.boundaryStore = "error"]

\* the store answers the gate and raises when the commit boundary queries it
BoundaryStoreError == [NoFault EXCEPT !.boundaryStore = "error"]

LoggerThrows == [NoFault EXCEPT !.logger = "throws"]

LoggerRejects == [NoFault EXCEPT !.logger = "rejects"]

StoreCorrupt == [NoFault EXCEPT !.store = "corrupt"]

MkdirFails == [NoFault EXCEPT !.mkdirOk = FALSE]

HandlerThrows == [NoFault EXCEPT !.handlerOk = FALSE]

DockerRunFails == [NoFault EXCEPT !.dockerRunOk = FALSE]

\* a tool call of run-1 by the worker agent
ToolCall(toolName, stage, workflowName) ==
    [ toolName |-> toolName, hasContext |-> TRUE, workflowName |-> workflowName,
      agentName |-> "worker", runId |-> "run-1", stage |-> stage,
      reviewerVerdict |-> "PASS" ]

\* a tool call without a context
NoContextCall ==
    [ toolName |-> "asi.get_bookings", hasContext |-> FALSE, workflowName |-> "",
      agentName |-> "", runId |-> "", stage |-> "", reviewerVerdict |-> "NONE" ]

\* an approval request of run-1
ApprovalInput(trustLevel, actionType, workflowName, reviewerVerdict) ==
    [ runId |-> "run-1", workflowName |-> workflowName, requestedBy |-> "worker",
      trustLevel |-> trustLevel, actionType |-> actionType, sandboxId |-> "NONE",
      reviewerVerdict |-> reviewerVerdict ]

-----------------------------------------------------------------------------
(* Router: every way a call can end                                        *)

RouterConfigs ==
    { [store |-> TRUE, boundary |-> TRUE, sandbox |-> "passthrough"],
      [store |-> TRUE, boundary |-> FALSE, sandbox |-> "passthrough"],
      [store |-> FALSE, boundary |-> FALSE, sandbox |-> "fail_closed"],
      [store |-> FALSE, boundary |-> FALSE, sandbox |-> "none"] }

InitRouter ==
    /\ requests = <<>>
    /\ decisions = <<>>
    /\ now = 0
    /\ last = NoOp
    /\ calls = [c \in Callers |-> Idle]
    /\ router \in RouterConfigs
    /\ events = <<>>
    /\ dockerDaemon = "available"
    /\ dockerCache = NoCache
    /\ stagedChanges = <<>>
    /\ workflowRun = NoRun
    /\ adapters = <<>>
    /\ registeredTools = <<>>

CallRequests ==
    { ToolCall(n, s, "test_workflow") :
        n \in {"asi.get_bookings", "asi.get_members", "asi.stage_booking_create",
               "asi.commit_post_alert", "delete_member", "asi.not_registered", ""},
        s \in {"plan", "execute", "commit"} }
    \cup { ToolCall("asi.stage_booking_create", "deploy", "test_workflow"),
           ToolCall("asi.get_bookings", "plan", ""),
           NoContextCall }

CallEnvs == {NoFault, StoreError, StoreCorrupt, HandlerThrows}

RouterRequestInputs ==
    { ApprovalInput(l, "asi.commit_post_alert", "test_workflow", "PASS") :
        l \in {"L2", "L3"} }

NextRouter ==
    \/ \E input \in RouterRequestInputs : router.store /\ CreateRequest(input, FALSE)
    \/ \E id \in RequestIds, by \in Deciders, d \in DecisionTypes :
           router.store /\ CreateDecision(id, by, d, FALSE)
    \/ \E request \in CallRequests, env \in CallEnvs : Call(request, env)

SpecRouter == InitRouter /\ [][NextRouter]_vars

-----------------------------------------------------------------------------
(* Sandbox: a router over a Docker or fail-closed sandbox                  *)

SandboxConfigs ==
    { [store |-> FALSE, boundary |-> FALSE, sandbox |-> k] :
        k \in {"docker_fail_closed", "docker_fallback", "fail_closed"} }

InitSandbox ==
    /\ requests = <<>>
    /\ decisions = <<>>
    /\ now = 0
    /\ last = NoOp
    /\ calls = [c \in Callers |-> Idle]
    /\ router \in SandboxConfigs
    /\ events = <<>>
    /\ dockerDaemon \in DockerStates
    /\ dockerCache = NoCache
    /\ stagedChanges = <<>>
    /\ workflowRun = NoRun
    /\ adapters = <<>>
    /\ registeredTools = <<>>

SandboxClockValues == {20, 40}

ExecuteInputs ==
    [ runId : {"run-1", ""}, toolName : {"asi.stage_booking_create"},
      hasHandler : {TRUE}, sandboxId : {"NONE", "sb-1"} ]

SandboxEnvs == {NoFault, MkdirFails, HandlerThrows, DockerRunFails}

SandboxCallRequests ==
    { ToolCall("asi.stage_booking_create", "execute", w) : w \in {"test_workflow", ""} }
    \cup { ToolCall("asi.get_bookings", "plan", "test_workflow") }

NextSandbox ==
    \/ \E t \in SandboxClockValues : Tick(t)
    \/ \E d \in DockerStates : DockerChange(d)
    \/ \E input \in ExecuteInputs, env \in SandboxEnvs : Execute(input, env)
    \/ \E request \in SandboxCallRequests, env \in SandboxEnvs : Call(request, env)

SpecSandbox == InitSandbox /\ [][NextSandbox]_vars

-----------------------------------------------------------------------------
(* Commit tool boundary over the approval store                            *)

\* verifyCommitEligibility called on the boundary
VerifyCommitEligibilityCall(runId, toolName, env) ==
    LET r == VerifyCommitEligibility(runId, toolName, requests, env.boundaryStore,
                                     router.sandbox, stagedChanges, now)
    IN  /\ router.boundary
        /\ last' = [ op |-> "verify", id |-> r.approvalId, outcome |-> r.reason,
                     runId |-> runId, toolName |-> toolName,
                     eligible |-> r.eligible ]
        /\ UNCHANGED <<registeredTools, adapters, workflowRun, requests, decisions, now, calls, router, events,
                       dockerDaemon, dockerCache, stagedChanges>>

\* the event logCommit builds
CommitEvent(runId, toolName, request, success) ==
    [ workflowName |-> request.workflowName, agentName |-> request.requestedBy,
      runId |-> runId, trustLevel |-> COMMIT_TOOLS[toolName].minTrustLevel,
      stage |-> "commit", toolName |-> toolName, failed |-> ~success ]

\* executeCommit with args that carry no sandbox_id; argsOk: the args have
\* the fields the tool reads
ExecuteCommit(runId, toolName, argsOk, env) ==
    LET r == VerifyCommitEligibility(runId, toolName, requests, env.boundaryStore,
                                     router.sandbox, stagedChanges, now)
        success == r.eligible /\ (toolName = "asi.commit_apply_changes" \/ argsOk)
    IN  /\ router.boundary
        /\ Len(events) < MaxEvents
        /\ events' = IF r.eligible
                     THEN EventsAfterLog(events,
                              CommitEvent(runId, toolName, requests[r.approvalId],
                                          success))
                     ELSE events
        /\ last' = [ op |-> "commit", id |-> r.approvalId,
                     outcome |-> IF ~r.eligible THEN "not_eligible"
                                 ELSE IF success THEN "committed" ELSE "failed",
                     runId |-> runId, toolName |-> toolName, success |-> success,
                     logged |-> events' # events ]
        /\ UNCHANGED <<registeredTools, adapters, workflowRun, requests, decisions, now, calls, router, dockerDaemon,
                       dockerCache, stagedChanges>>

CommitConfigs ==
    { [store |-> TRUE, boundary |-> b, sandbox |-> "passthrough"] : b \in BOOLEAN }

InitCommit ==
    /\ requests = <<>>
    /\ decisions = <<>>
    /\ now = 0
    /\ last = NoOp
    /\ calls = [c \in Callers |-> Idle]
    /\ router \in CommitConfigs
    /\ events = <<>>
    /\ dockerDaemon = "available"
    /\ dockerCache = NoCache
    /\ stagedChanges = <<>>
    /\ workflowRun = NoRun
    /\ adapters = <<>>
    /\ registeredTools = <<>>

CommitRequestInputs ==
    { ApprovalInput("L3", "asi.commit_post_alert", "test_workflow", v) :
        v \in {"PASS", "FAIL"} }
    \cup { ApprovalInput("L3", "COMMIT_POST_ALERT", "test_workflow", "PASS"),
           ApprovalInput("L3", "delete_member", "daily_ops_brief", "PASS"),
           ApprovalInput("L3", "asi.commit_send_invoice", "daily_ops_brief", "PASS"),
           ApprovalInput("L4", "asi.commit_send_invoice", "test_workflow", "PASS") }

CommitClockValues == {7200}

CommitDecisionTypes == {"APPROVE", "REJECT"}

CommitToolNames == {"asi.commit_post_alert", "asi.commit_send_invoice", "delete_member"}

CommitCallRequests == { ToolCall(n, "commit", "test_workflow") : n \in CommitToolNames }

CommitEnvs == {NoFault, StoreError}

NextCommit ==
    \/ \E input \in CommitRequestInputs : CreateRequest(input, FALSE)
    \/ \E id \in RequestIds, by \in Deciders, d \in CommitDecisionTypes :
           CreateDecision(id, by, d, FALSE)
    \/ \E id \in RequestIds : AutoApprove(id, FALSE)
    \/ \E t \in CommitClockValues : Tick(t)
    \/ \E request \in CommitCallRequests, env \in CommitEnvs : Call(request, env)
    \/ \E n \in CommitToolNames, env \in CommitEnvs :
           VerifyCommitEligibilityCall("run-1", n, env)
    \/ \E n \in CommitToolNames, argsOk \in BOOLEAN, env \in CommitEnvs :
           ExecuteCommit("run-1", n, argsOk, env)

SpecCommit == InitCommit /\ [][NextCommit]_vars

-----------------------------------------------------------------------------
(* apply_changes over staged changes                                       *)

\* sandbox.commitChanges: the staged changes of the sandbox id are dropped
CommitChanges(sandboxId) ==
    /\ router.sandbox # "none"
    /\ sandboxId \in DOMAIN stagedChanges
    /\ stagedChanges' = [s \in DOMAIN stagedChanges \ {sandboxId} |-> stagedChanges[s]]
    /\ UNCHANGED <<registeredTools, adapters, workflowRun, requests, decisions, now, last, calls, router, events,
                   dockerDaemon, dockerCache>>

InitApply ==
    /\ requests = <<>>
    /\ decisions = <<>>
    /\ now = 0
    /\ last = NoOp
    /\ calls = [c \in Callers |-> Idle]
    /\ router = [store |-> TRUE, boundary |-> TRUE, sandbox |-> "passthrough"]
    /\ events = <<>>
    /\ dockerDaemon = "available"
    /\ dockerCache = NoCache
    /\ stagedChanges = <<>>
    /\ workflowRun = NoRun
    /\ adapters = <<>>
    /\ registeredTools = <<>>

\* requests for apply_changes with and without a sandbox id in their context
ApplyRequestInputs ==
    { [ApprovalInput("L3", "COMMIT_APPLY_CHANGES", "test_workflow", "PASS")
          EXCEPT !.sandboxId = s] : s \in {"NONE", "sb-1"} }

ApplyExecuteInputs ==
    { [runId |-> "run-1", toolName |-> "asi.stage_booking_create",
       hasHandler |-> TRUE, sandboxId |-> "sb-1"] }

ApplyToolNames == {"asi.commit_apply_changes", "asi.commit_post_alert"}

NextApply ==
    \/ \E input \in ApplyRequestInputs : CreateRequest(input, FALSE)
    \/ \E id \in RequestIds, by \in Deciders, d \in CommitDecisionTypes :
           CreateDecision(id, by, d, FALSE)
    \/ \E input \in ApplyExecuteInputs, env \in {NoFault, HandlerThrows} :
           Execute(input, env)
    \/ CommitChanges("sb-1")
    \/ \E n \in ApplyToolNames, env \in CommitEnvs :
           VerifyCommitEligibilityCall("run-1", n, env)
    \/ \E n \in ApplyToolNames, argsOk \in BOOLEAN, env \in CommitEnvs :
           ExecuteCommit("run-1", n, argsOk, env)

SpecApply == InitApply /\ [][NextApply]_vars

-----------------------------------------------------------------------------
(* Expiry as seen through the store's queries                              *)

\* isPending(id) called on the store
IsPendingCall(id) ==
    /\ last' = [op |-> "isPending", id |-> id,
                outcome |-> IF IsPending(requests, now, id) THEN "true" ELSE "false"]
    /\ UNCHANGED <<registeredTools, adapters, workflowRun, requests, decisions, now, calls, routerVars>>

\* getPendingRequests() called on the store; the ids of the requests returned
GetPendingRequestsCall ==
    /\ last' = [op |-> "getPendingRequests", id |-> 0,
                outcome |-> GetPendingRequests(requests, now)]
    /\ UNCHANGED <<registeredTools, adapters, workflowRun, requests, decisions, now, calls, routerVars>>

ExpiryRequestInputs ==
    { ApprovalInput(l, "COMMIT_POST_ALERT", "test_workflow", "PASS") :
        l \in {"L3", "L4"} }

\* instants before, at and after the expiry of an L3 request created at 0
ExpiryClockValues == {1800, DEFAULT_EXPIRY_L3, 7200}

ExpiryDecisionTypes == {"APPROVE"}

NextExpiry ==
    \/ \E t \in ExpiryClockValues : Tick(t)
    \/ \E input \in ExpiryRequestInputs : CreateRequest(input, TRUE)
    \/ ExpireStaleRequests(TRUE)
    \/ \E id \in RequestIds, by \in Deciders, d \in ExpiryDecisionTypes :
           CreateDecision(id, by, d, TRUE)
    \/ \E id \in RequestIds : AutoApprove(id, TRUE)
    \/ \E id \in RequestIds : IsPendingCall(id)
    \/ GetPendingRequestsCall

SpecExpiry == InitStore /\ [][NextExpiry]_vars

-----------------------------------------------------------------------------
(* Trust gate on its own                                                   *)

\* TrustGate.evaluate called on the gate
EvaluateCall(tool, stage, context) ==
    /\ last' = [ op |-> "evaluate", id |-> 0, outcome |-> "returned",
                 tool |-> tool, stage |-> stage, context |-> context,
                 result |-> Evaluate(tool, stage, context) ]
    /\ UNCHANGED <<registeredTools, adapters, workflowRun, requests, decisions, now, calls, routerVars>>

\* TrustGate.evaluateWithApproval called with the approval store in the context
EvaluateWithApprovalCall(tool, stage, context, storeState) ==
    /\ last' = [ op |-> "evaluateWithApproval", id |-> 0, outcome |-> "returned",
                 tool |-> tool, stage |-> stage, context |-> context,
                 result |-> EvaluateWithApproval(tool, stage, context, requests,
                                                 storeState) ]
    /\ UNCHANGED <<registeredTools, adapters, workflowRun, requests, decisions, now, calls, routerVars>>

Capabilities == {"READ", "PROPOSE", "WRITE", "SIDE_EFFECTS"}

Risks == {"LOW", "MEDIUM", "HIGH", "CRITICAL"}

\* tool definitions of every capability and risk, under names with the
\* overrides L0, L2, L3, L4 and under a name without override
GateTools ==
    [ name : {"asi.get_bookings", "asi.stage_booking_create",
              "asi.commit_post_alert", "asi.commit_send_invoice",
              "asi.not_registered"},
      capability : Capabilities, risk : Risks, executionMode : {"DIRECT"} ]

GateStages == VALID_STAGES \cup {"deploy"}

GateContexts ==
    { ToolCall("", "", "test_workflow"),
      [ToolCall("", "", "test_workflow") EXCEPT !.agentName = ""] }

NextGate ==
    \E tool \in GateTools, stage \in GateStages, context \in GateContexts :
        EvaluateCall(tool, stage, context)

SpecGate == InitStore /\ [][NextGate]_vars

-----------------------------------------------------------------------------
(* Trust gate over the approval store                                      *)

\* requests of two runs for post_alert, with either verdict
GateRequestInputs ==
    { ApprovalInput("L3", "asi.commit_post_alert", "test_workflow", v) :
        v \in {"PASS", "FAIL"} }
    \cup { [ApprovalInput("L3", "asi.commit_post_alert", "test_workflow", "PASS")
              EXCEPT !.runId = "run-2"] }

GateClockValues == {7200}

GateCalls ==
    { [tool |-> Tools[n], stage |-> s] :
        n \in {"asi.get_bookings", "asi.stage_booking_create",
               "asi.commit_post_alert"},
        s \in VALID_STAGES }

NextGateApproval ==
    \/ \E input \in GateRequestInputs : CreateRequest(input, FALSE)
    \/ \E id \in RequestIds, by \in Deciders, d \in DecisionTypes :
           CreateDecision(id, by, d, FALSE)
    \/ \E t \in GateClockValues : Tick(t)
    \/ ExpireStaleRequests(FALSE)
    \/ \E c \in GateCalls :
           EvaluateCall(c.tool, c.stage, ToolCall(c.tool.name, c.stage, "test_workflow"))
    \/ \E c \in GateCalls, storeState \in {"ok", "error"} :
           EvaluateWithApprovalCall(c.tool, c.stage,
               ToolCall(c.tool.name, c.stage, "test_workflow"), storeState)

SpecGateApproval == InitStore /\ [][NextGateApproval]_vars

-----------------------------------------------------------------------------
(* Agent orchestrator                                                      *)

\* agent.maxTurns of every agent
MaxTurns == 2

\* getAgentForStage: roleForStage
RoleForStage(stage) ==
    CASE stage = "plan" -> "planner"
      [] stage = "execute" -> "worker"
      [] stage = "review" -> "reviewer"
      [] stage = "commit" -> "worker"
      [] OTHER -> "NONE"

\* getAgentForStage: the workflow's agents are given by their roles, and an
\* agent is named after its role; "NONE" when agents.find finds none
GetAgentForStage(roles, stage) ==
    IF RoleForStage(stage) \in roles THEN RoleForStage(stage) ELSE "NONE"

\* stageOrder.indexOf(stage), counted from 1; 0 when the stage is absent
IndexOf(stages, stage) ==
    IF \E i \in 1..Len(stages) : stages[i] = stage
    THEN CHOOSE i \in 1..Len(stages) :
             stages[i] = stage /\ \A j \in 1..(i - 1) : stages[j] # stage
    ELSE 0

\* validateWorkflowDefinition and the two checks of runWorkflow that follow it
WorkflowError(workflow) ==
    IF workflow.name = "" THEN "missing_name"
    ELSE IF workflow.roles = {} THEN "empty_agents"
    ELSE IF workflow.stages = <<>> THEN "empty_stages"
    ELSE IF \E i \in 1..Len(workflow.stages) : workflow.stages[i] \notin VALID_STAGES
    THEN "unrecognized_stage"
    ELSE IF /\ IndexOf(workflow.stages, "commit") # 0
            /\ \/ IndexOf(workflow.stages, "review") = 0
               \/ IndexOf(workflow.stages, "review") > IndexOf(workflow.stages, "commit")
    THEN "commit_without_review"
    ELSE "NONE"

\* extractReviewerVerdict: the VERDICT marker first, then approval language,
\* then rejection language
ExtractReviewerVerdict(text) ==
    IF text.marker # "NONE" THEN text.marker
    ELSE IF text.approves THEN "PASS"
    ELSE IF text.rejects THEN "FAIL"
    ELSE "NONE"

\* runWorkflow once the workflow has passed validation and the start is logged
RunStarted(workflow, options, hasStore) ==
    [ pc |-> "stage", workflow |-> workflow, hasStore |-> hasStore,
      index |-> 1, turns |-> 0, runAgentCalls |-> 0, toolCalls |-> <<>>,
      reviewerVerdict |-> options.reviewerVerdict,
      status |-> "completed", error |-> "NONE", approvalRequestId |-> 0,
      agentsRun |-> <<>>, llmCalls |-> 0, toolsCalled |-> 0, handlers |-> <<>>,
      created |-> {}, autoApproved |-> {}, logged |-> <<"start">> ]

\* runWorkflow returning from its validation
RunRejected(workflow, options, hasStore, error) ==
    [ RunStarted(workflow, options, hasStore) EXCEPT
        !.pc = "done", !.index = 0, !.status = "failed", !.error = error,
        !.reviewerVerdict = "NONE", !.logged = <<>> ]

\* break out of the stage loop after logging intents, then the completion
\* event and the return
Finish(w, status, error, intents) ==
    [ w EXCEPT !.pc = "done", !.status = status, !.error = error,
               !.logged = w.logged \o intents \o <<"completed">> ]

\* the catch block of runWorkflow
Caught(w) ==
    [ w EXCEPT !.pc = "done", !.status = "failed", !.error = "exception",
               !.logged = Append(w.logged, "error") ]

\* the first commit tool call of the stage; 0 if there is none
CommitToolCall(toolCalls) ==
    IF \E i \in 1..Len(toolCalls) : IsCommitTool(toolCalls[i].tool)
    THEN CHOOSE i \in 1..Len(toolCalls) :
             /\ IsCommitTool(toolCalls[i].tool)
             /\ \A j \in 1..(i - 1) : ~IsCommitTool(toolCalls[j].tool)
    ELSE 0

\* the input createApprovalRequest builds for the commit tool call
ApprovalRequestInput(w, agentName, call) ==
    [ runId |-> "run-1", workflowName |-> w.workflow.name,
      requestedBy |-> agentName,
      trustLevel |-> COMMIT_TOOLS[call.tool].minTrustLevel,
      actionType |-> COMMIT_TOOLS[call.tool].actionType,
      sandboxId |-> call.sandboxId,
      reviewerVerdict |-> w.reviewerVerdict ]

\* the approval request is pending: the pause is logged and the loop left
Paused(w, approvalRequestId, created, reqs, decs) ==
    [ run |-> Finish([w EXCEPT !.approvalRequestId = approvalRequestId,
                               !.created = @ \cup created],
                     "requires_approval", w.error, <<"paused">>),
      reqs |-> reqs, decs |-> decs ]

\* runWorkflow after autoApprove(id) returned s for the request it created
AfterAutoApprove(w, id, reqs, decs, s) ==
    IF s.outcome = "decision"
    THEN [ run |-> [w EXCEPT !.pc = "stage", !.index = @ + 1,
                             !.status = "completed", !.approvalRequestId = id,
                             !.created = @ \cup {id},
                             !.autoApproved = @ \cup {id},
                             !.logged = Append(@, "auto_approved")],
           reqs |-> s.reqs, decs |-> s.decs ]
    ELSE IF s.outcome = "throw"
    THEN [ run |-> Caught([w EXCEPT !.status = "requires_approval",
                                    !.approvalRequestId = id,
                                    !.created = @ \cup {id}]),
           reqs |-> s.reqs, decs |-> s.decs ]
    ELSE Paused(w, id, {id}, s.reqs, s.decs)

\* runWorkflow after createRequest stored the request id
AfterCreateRequest(w, id, reqs, decs, t) ==
    IF reqs[id].autoApproveEligible /\ w.reviewerVerdict = "PASS"
    THEN AfterAutoApprove(w, id, reqs, decs, AutoApproveStep(reqs, decs, t, id))
    ELSE Paused(w, id, {id}, reqs, decs)

\* createApprovalRequest for the commit tool call at position c of the stage
CreateApprovalRequest(w, agentName, c, reqs, decs, t) ==
    IF c = 0 \/ ~ValidRequestInput(ApprovalRequestInput(w, agentName, w.toolCalls[c]))
    THEN Paused(w, 0, {}, reqs, decs)
    ELSE AfterCreateRequest(w, Len(reqs) + 1,
             Append(reqs, NewRequest(ApprovalRequestInput(w, agentName, w.toolCalls[c]), t)),
             decs, t)

\* runWorkflow on a stage result that requires approval
RequiresApproval(w, stage, sr, reqs, decs, t) ==
    IF w.hasStore /\ sr.approvalRequestId = 0 /\ stage = "commit"
    THEN CreateApprovalRequest(w, RoleForStage(stage), CommitToolCall(w.toolCalls),
                               reqs, decs, t)
    ELSE Paused(w, sr.approvalRequestId, {}, reqs, decs)

\* the verdict runWorkflow holds after the stage
VerdictAfter(w, stage, sr) ==
    IF stage = "review" /\ sr.reviewerVerdict # "NONE"
    THEN sr.reviewerVerdict ELSE w.reviewerVerdict

\* a stage loop that takes no notice of a FAIL from the reviewer
AfterStageIgnoresFail(w, stage, sr, reqs, decs, t) ==
    IF sr.status = "requires_approval"
    THEN RequiresApproval(w, stage, sr, reqs, decs, t)
    ELSE IF sr.status = "failed"
    THEN [ run |-> Finish(w, "failed", "stage_failed", <<"stage_failed">>),
           reqs |-> reqs, decs |-> decs ]
    ELSE [ run |-> [w EXCEPT !.pc = "stage", !.index = @ + 1],
           reqs |-> reqs, decs |-> decs ]

\* runWorkflow from the return of runAgent to the next iteration or the return;
\* w holds the verdict captured from the stage
AfterStage(w, stage, sr, reqs, decs, t) ==
    IF stage = "review" /\ sr.reviewerVerdict = "FAIL"
    THEN [ run |-> Finish(w, "failed", "reviewer_fail", <<"blocked">>),
           reqs |-> reqs, decs |-> decs ]
    ELSE IF sr.status = "requires_approval"
    THEN RequiresApproval(w, stage, sr, reqs, decs, t)
    ELSE IF sr.status = "failed"
    THEN [ run |-> Finish(w, "failed", "stage_failed", <<"stage_failed">>),
           reqs |-> reqs, decs |-> decs ]
    ELSE [ run |-> [w EXCEPT !.pc = "stage", !.index = @ + 1],
           reqs |-> reqs, decs |-> decs ]

\* toolCalls.find((tc) => tc.result.approvalRequestId)?.result.approvalRequestId
FirstApprovalRequestId(toolCalls) ==
    IF \E i \in 1..Len(toolCalls) : toolCalls[i].approvalRequestId # 0
    THEN toolCalls[CHOOSE i \in 1..Len(toolCalls) :
                       /\ toolCalls[i].approvalRequestId # 0
                       /\ \A j \in 1..(i - 1) : toolCalls[j].approvalRequestId = 0
                  ].approvalRequestId
    ELSE 0

\* the approvalRequestId of a ToolCallResult
ResultApprovalId(r, eligibility) ==
    IF r.outcome \in {"gate_denied", "executed"} THEN r.gate.approvalId
    ELSE IF r.outcome = "boundary_denied" THEN eligibility.approvalId
    ELSE 0

\* a runAgent whose loop has no bound on its turns
ToolStageResultNoLimit(w, r) ==
    IF r.gate.requiresApproval
    THEN [ status |-> "requires_approval", reviewerVerdict |-> "NONE",
           approvalRequestId |-> FirstApprovalRequestId(w.toolCalls) ]
    ELSE [ status |-> "running", reviewerVerdict |-> "NONE", approvalRequestId |-> 0 ]

\* what runAgent returns after the tool call with result r
ToolStageResult(w, r) ==
    IF r.gate.requiresApproval
    THEN [ status |-> "requires_approval", reviewerVerdict |-> "NONE",
           approvalRequestId |-> FirstApprovalRequestId(w.toolCalls) ]
    ELSE IF w.turns >= MaxTurns
    THEN [ status |-> "failed", reviewerVerdict |-> "NONE", approvalRequestId |-> 0 ]
    ELSE [ status |-> "running", reviewerVerdict |-> "NONE", approvalRequestId |-> 0 ]

\* what runAgent returns on a response without tool use
TextStageResult(role, text) ==
    [ status |-> "completed",
      reviewerVerdict |-> IF role = "reviewer" /\ ~text.empty
                          THEN ExtractReviewerVerdict(text) ELSE "NONE",
      approvalRequestId |-> 0 ]

\* runAgent's bookkeeping of a tool call: toolCalls.push and turns++
WithToolCall(w, stage, tool, r, approvalRequestId, sandboxId) ==
    [ w EXCEPT !.llmCalls = @ + 1, !.toolsCalled = @ + 1, !.turns = @ + 1,
               !.runAgentCalls = @ + 1,
               !.toolCalls = Append(@, [tool |-> tool,
                                        requiresApproval |-> r.gate.requiresApproval,
                                        approvalRequestId |-> approvalRequestId,
                                        sandboxId |-> IF r.run.staged = "none"
                                                      THEN "NONE" ELSE sandboxId]),
               !.handlers = IF r.handlerInvoked
                            THEN Append(@, [tool |-> tool, stage |-> stage])
                            ELSE @ ]

\* the store and the run after a step of runWorkflow
Proceed(next) ==
    /\ Len(next.reqs) <= MaxReq
    /\ workflowRun' = next.run
    /\ requests' = next.reqs
    /\ decisions' = next.decs

\* the step of runWorkflow that follows the stage result sr
StageReturn(w, stage, sr) ==
    IF sr.status = "running"
    THEN workflowRun' = w /\ UNCHANGED <<registeredTools, adapters, requests, decisions>>
    ELSE Proceed(AfterStage([w EXCEPT !.reviewerVerdict = VerdictAfter(w, stage, sr)],
                            stage, sr, requests, decisions, now))

\* the router's side of a tool call whose result is r
RouterEffect(request, r, sandboxId) ==
    /\ sandboxId # "NONE"
    /\ events' = IF r.logs THEN EventsAfterLog(events, ToolCallEvent(request, r))
                 ELSE events
    /\ dockerCache' = r.cache
    /\ stagedChanges' = StagedAfter(stagedChanges, sandboxId, r.run.staged)

\* runAgent on a tool_use response, up to the next request to the model
ToolUse(w, stage, request, r, eligibility, sandboxId) ==
    /\ RouterEffect(request, r, sandboxId)
    /\ StageReturn(WithToolCall(w, stage, request.toolName, r,
                                ResultApprovalId(r, eligibility), sandboxId),
                   stage,
                   ToolStageResult(WithToolCall(w, stage, request.toolName, r,
                                       ResultApprovalId(r, eligibility), sandboxId), r))

\* the ToolCallRequest runAgent builds
AgentToolCall(w, stage, tool) ==
    [ ToolCall(tool, stage, w.workflow.name) EXCEPT
        !.agentName = RoleForStage(stage), !.reviewerVerdict = w.reviewerVerdict ]

\* runWorkflow up to its stage loop
RunWorkflow(workflow, options, hasStore) ==
    /\ workflowRun.pc = "idle"
    /\ workflowRun' =
          IF WorkflowError(workflow) # "NONE"
          THEN RunRejected(workflow, options, hasStore, WorkflowError(workflow))
          ELSE RunStarted(workflow, options, hasStore)
    /\ UNCHANGED <<registeredTools, adapters, requests, decisions, now, last, calls, routerVars>>

\* one iteration of the stage loop up to the call of runAgent
EnterStage ==
    /\ workflowRun.pc = "stage"
    /\ workflowRun' =
          IF workflowRun.index > Len(workflowRun.workflow.stages)
          THEN Finish(workflowRun, workflowRun.status, workflowRun.error, <<>>)
          ELSE IF GetAgentForStage(workflowRun.workflow.roles,
                       workflowRun.workflow.stages[workflowRun.index]) = "NONE"
          THEN Finish(workflowRun, "failed", "missing_agent", <<"missing_agent">>)
          ELSE IF /\ workflowRun.workflow.stages[workflowRun.index] = "commit"
                  /\ workflowRun.reviewerVerdict = "NONE"
          THEN Finish(workflowRun, "failed", "missing_verdict", <<"missing_verdict">>)
          ELSE [ workflowRun EXCEPT
                   !.pc = "agent", !.turns = 0, !.runAgentCalls = 0,
                   !.toolCalls = <<>>,
                   !.agentsRun = Append(@, workflowRun.workflow.stages[workflowRun.index]) ]
    /\ UNCHANGED <<registeredTools, adapters, requests, decisions, now, last, calls, routerVars>>

\* the model answers with a tool use: the router is called
AgentToolUse(tool) ==
    /\ workflowRun.pc = "agent"
    /\ ToolUse(workflowRun, workflowRun.workflow.stages[workflowRun.index],
               AgentToolCall(workflowRun,
                             workflowRun.workflow.stages[workflowRun.index], tool),
               CallResult(router,
                          AgentToolCall(workflowRun,
                              workflowRun.workflow.stages[workflowRun.index], tool),
                          NoFault, requests, stagedChanges, dockerCache,
                          dockerDaemon, now),
               VerifyCommitEligibility("run-1", tool, requests, "ok",
                                       router.sandbox, stagedChanges, now),
               SandboxIdFor(stagedChanges, "NONE"))
    /\ UNCHANGED <<registeredTools, adapters, now, last, calls, router, dockerDaemon>>

\* the model answers with text: runAgent returns
AgentText(text) ==
    /\ workflowRun.pc = "agent"
    /\ StageReturn([workflowRun EXCEPT !.llmCalls = @ + 1, !.runAgentCalls = @ + 1],
                   workflowRun.workflow.stages[workflowRun.index],
                   TextStageResult(
                       RoleForStage(workflowRun.workflow.stages[workflowRun.index]),
                       text))
    /\ UNCHANGED <<registeredTools, adapters, now, last, calls, routerVars>>

-----------------------------------------------------------------------------
(* Inputs                                                                  *)

\* a workflow definition: its name, its stages and the roles of its agents
Workflow(name, stages, roles) == [name |-> name, stages |-> stages, roles |-> roles]

Workflows ==
    { Workflow("test_workflow", <<"plan", "execute", "review", "commit">>,
               {"planner", "worker", "reviewer"}),
      Workflow("test_workflow", <<"review", "commit">>, {"worker", "reviewer"}),
      Workflow("test_workflow", <<"review", "commit", "commit">>, {"worker", "reviewer"}),
      Workflow("test_workflow", <<"plan">>, {"planner"}),
      Workflow("test_workflow", <<"plan", "commit">>, {"planner", "worker", "reviewer"}),
      Workflow("test_workflow", <<"commit", "review">>, {"worker", "reviewer"}),
      Workflow("test_workflow", <<"plan", "execute">>, {"planner"}),
      Workflow("test_workflow", <<"review", "commit">>, {"reviewer"}),
      Workflow("test_workflow", <<"execute">>, {"planner"}),
      Workflow("test_workflow", <<"plan", "deploy">>, {"planner", "worker"}),
      Workflow("test_workflow", <<>>, {"planner"}),
      Workflow("test_workflow", <<"plan">>, {}),
      Workflow("", <<"plan">>, {"planner"}) }

RunOptions == [reviewerVerdict : {"NONE", "PASS", "FAIL"}]

\* the tools the model asks for
AgentTools == {"asi.get_bookings", "asi.commit_post_alert", "asi.commit_send_invoice"}

\* the text of a response: empty, or with a VERDICT marker, approval language
\* and rejection language or without
Texts ==
    [empty : {FALSE}, marker : {"PASS", "FAIL", "NONE"}, approves : BOOLEAN,
     rejects : BOOLEAN]
    \cup [empty : {TRUE}, marker : {"NONE"}, approves : {FALSE}, rejects : {FALSE}]

InitOrchestrator ==
    /\ requests = <<>>
    /\ decisions = <<>>
    /\ now = 0
    /\ last = NoOp
    /\ calls = [c \in Callers |-> Idle]
    /\ router \in CommitConfigs
    /\ events = <<>>
    /\ dockerDaemon = "available"
    /\ dockerCache = NoCache
    /\ stagedChanges = <<>>
    /\ workflowRun = NoRun
    /\ adapters = <<>>
    /\ registeredTools = <<>>

NextOrchestrator ==
    \/ \E workflow \in Workflows, options \in RunOptions, hasStore \in BOOLEAN :
           RunWorkflow(workflow, options, hasStore)
    \/ EnterStage
    \/ \E tool \in AgentTools : AgentToolUse(tool)
    \/ \E text \in Texts : AgentText(text)

SpecOrchestrator == InitOrchestrator /\ [][NextOrchestrator]_vars

-----------------------------------------------------------------------------
(* Trust level of a tool                                                   *)

\* gate.getTrustLevelForTool(tool) of a gate configured with overrides
GetTrustLevelForToolCall(overrides, tool) ==
    /\ last' = [ op |-> "getTrustLevelForTool", id |-> 0, outcome |-> "returned",
                 overrides |-> overrides, tool |-> tool,
                 result |-> TrustLevelFor(overrides, tool) ]
    /\ UNCHANGED <<registeredTools, adapters, workflowRun, requests, decisions, now, calls, routerVars>>

\* inferTrustLevel(risk, capability)
InferTrustLevelCall(risk, capability) ==
    /\ last' = [ op |-> "inferTrustLevel", id |-> 0, outcome |-> "returned",
                 risk |-> risk, capability |-> capability,
                 result |-> InferTrustLevel(risk, capability) ]
    /\ UNCHANGED <<registeredTools, adapters, workflowRun, requests, decisions, now, calls, routerVars>>

\* config.toolOverrides: none, the ASI defaults, and two single overrides
OverrideConfigs ==
    { [n \in {} |-> "L0"],
      toolOverrides,
      [n \in {"asi.get_bookings"} |-> "L4"],
      [n \in {"asi.not_registered"} |-> "L1"] }

LevelTools ==
    [ name : {"asi.get_bookings", "asi.not_registered"},
      capability : Capabilities, risk : Risks, executionMode : {"DIRECT"} ]

NextTrustLevel ==
    \/ \E overrides \in OverrideConfigs, tool \in LevelTools :
           GetTrustLevelForToolCall(overrides, tool)
    \/ \E risk \in Risks, capability \in Capabilities :
           InferTrustLevelCall(risk, capability)

SpecTrustLevel == InitStore /\ [][NextTrustLevel]_vars

-----------------------------------------------------------------------------
(* Auto-approve eligibility at creation                                    *)

\* createRequest inputs over every trust level, verdict and list membership
EligibilityInputs ==
    [ runId           : {"run-1"},
      workflowName    : {"test_workflow", "daily_ops_brief", "billing_reconciliation"},
      requestedBy     : {"worker"},
      trustLevel      : TrustLevels,
      actionType      : {"COMMIT_POST_ALERT", "COMMIT_SEND_INVOICE", "COMMIT_UNLISTED"},
      sandboxId       : {"NONE"},
      reviewerVerdict : {"PASS", "FAIL", "NONE"} ]

NextEligibility == \E input \in EligibilityInputs : CreateRequest(input, TRUE)

SpecEligibility == InitStore /\ [][NextEligibility]_vars

-----------------------------------------------------------------------------
(* Validation of the gate's inputs                                         *)

\* tool definitions as they arrive at run time: the name may be empty, and
\* capability and risk are strings that need not be of the enumerations
UncheckedTools ==
    [ name : {"", "asi.get_bookings", "asi.not_registered"},
      capability : Capabilities \cup {"EXECUTE"},
      risk : Risks \cup {"SEVERE"},
      executionMode : {"DIRECT"} ]

\* contexts with and without agent name and run id
UncheckedContexts ==
    { ToolCall("", "", "test_workflow"),
      [ToolCall("", "", "test_workflow") EXCEPT !.agentName = ""],
      [ToolCall("", "", "test_workflow") EXCEPT !.runId = ""] }

NextGateValidation ==
    \E tool \in UncheckedTools, stage \in GateStages, context \in UncheckedContexts :
        EvaluateCall(tool, stage, context)

SpecGateValidation == InitStore /\ [][NextGateValidation]_vars

-----------------------------------------------------------------------------
(* Router under a failing approval store or a failing logger               *)

\* the store raises at the gate, at the boundary or at both; the logger
\* raises or rejects, alone or together with a failing handler or store
FaultEnvs ==
    { NoFault, StoreError, BoundaryStoreError, StoreCorrupt, HandlerThrows,
      LoggerThrows, LoggerRejects,
      [LoggerThrows EXCEPT !.store = "error", !.boundaryStore = "error"],
      [LoggerThrows EXCEPT !.boundaryStore = "error"],
      [LoggerThrows EXCEPT !.handlerOk = FALSE],
      [LoggerRejects EXCEPT !.handlerOk = FALSE] }

FaultCallRequests ==
    { ToolCall("asi.commit_post_alert", "commit", "test_workflow"),
      ToolCall("asi.stage_booking_create", "execute", "test_workflow"),
      ToolCall("asi.get_bookings", "plan", "test_workflow"),
      ToolCall("asi.not_registered", "plan", "test_workflow") }

FaultRequestInputs ==
    { ApprovalInput("L3", "asi.commit_post_alert", "test_workflow", "PASS") }

NextFault ==
    \/ \E input \in FaultRequestInputs : CreateRequest(input, FALSE)
    \/ \E id \in RequestIds, by \in Deciders, d \in CommitDecisionTypes :
           CreateDecision(id, by, d, FALSE)
    \/ \E request \in FaultCallRequests, env \in FaultEnvs : Call(request, env)
    \/ \E n \in CommitToolNames, env \in FaultEnvs :
           VerifyCommitEligibilityCall("run-1", n, env)

SpecFault == InitCommit /\ [][NextFault]_vars

-----------------------------------------------------------------------------
(* Staged change ledger of a sandbox                                       *)

\* stagedChanges.delete(sandboxId) that clears the whole map
StagedWithoutAny(staged, sandboxId) == <<>>

\* stagedChanges.delete(sandboxId)
StagedWithout(staged, sandboxId) ==
    [s \in DOMAIN staged \ {sandboxId} |-> staged[s]]

\* the state after the ledger of sandboxId was dropped by operation op
LedgerDrop(op, sandboxId) ==
    /\ router.sandbox # "none"
    /\ stagedChanges' = IF router.sandbox = "fail_closed" THEN stagedChanges
                        ELSE StagedWithout(stagedChanges, sandboxId)
    /\ last' = [ op |-> op, id |-> 0, outcome |-> "done", sandboxId |-> sandboxId,
                 dropped |-> StagedCount(router.sandbox, stagedChanges, sandboxId) ]
    /\ UNCHANGED <<registeredTools, adapters, workflowRun, requests, decisions, now, calls, router, events,
                   dockerDaemon, dockerCache>>

\* sandbox.commitChanges as an observed operation
CommitChangesCall(sandboxId) == LedgerDrop("commitChanges", sandboxId)

\* sandbox.rollbackChanges
RollbackChanges(sandboxId) == LedgerDrop("rollbackChanges", sandboxId)

\* sandbox.cleanup; removing the artifacts directory leaves the ledger alone
Cleanup(sandboxId) == LedgerDrop("cleanup", sandboxId)

\* sandbox.getStagedChanges
GetStagedChanges(sandboxId) ==
    /\ router.sandbox # "none"
    /\ last' = [ op |-> "getStagedChanges", id |-> 0, outcome |-> "returned",
                 sandboxId |-> sandboxId,
                 length |-> StagedCount(router.sandbox, stagedChanges, sandboxId) ]
    /\ UNCHANGED <<registeredTools, adapters, workflowRun, requests, decisions, now, calls, routerVars>>

LedgerConfigs ==
    { [store |-> FALSE, boundary |-> FALSE, sandbox |-> k] :
        k \in {"passthrough", "docker_fallback", "docker_fail_closed"} }

InitLedger ==
    /\ requests = <<>>
    /\ decisions = <<>>
    /\ now = 0
    /\ last = NoOp
    /\ calls = [c \in Callers |-> Idle]
    /\ router \in LedgerConfigs
    /\ events = <<>>
    /\ dockerDaemon \in {"available", "not_running"}
    /\ dockerCache = NoCache
    /\ stagedChanges = <<>>
    /\ workflowRun = NoRun
    /\ adapters = <<>>
    /\ registeredTools = <<>>

LedgerExecuteInputs ==
    [ runId : {"run-1"}, toolName : {"asi.stage_booking_create"},
      hasHandler : {TRUE}, sandboxId : {"NONE"} \cup SandboxIds ]

LedgerEnvs == {NoFault, HandlerThrows}

NextLedger ==
    \/ \E input \in LedgerExecuteInputs, env \in LedgerEnvs : Execute(input, env)
    \/ \E s \in SandboxIds : CommitChangesCall(s)
    \/ \E s \in SandboxIds : RollbackChanges(s)
    \/ \E s \in SandboxIds : Cleanup(s)
    \/ \E s \in SandboxIds : GetStagedChanges(s)

SpecLedger == InitLedger /\ [][NextLedger]_vars

-----------------------------------------------------------------------------
(* Sandbox factory                                                         *)

\* process.env.SANDBOX_ENABLED !== "false"
SandboxEnabled(value) == value # "false"

\* process.env.SANDBOX_FAIL_CLOSED === "true"
FailClosedFlag(value) == value = "true"

\* createSandbox that lets every environment but test fall back
CreateSandboxWithFallback(nodeEnv, enabledValue, failClosedValue) ==
    IF nodeEnv = "test" THEN "passthrough" ELSE "docker_fallback"

\* createSandbox: the kind of sandbox built from NODE_ENV, SANDBOX_ENABLED
\* and SANDBOX_FAIL_CLOSED; "UNSET" is a variable that is not defined
CreateSandbox(nodeEnv, enabledValue, failClosedValue) ==
    IF nodeEnv = "test" THEN "passthrough"
    ELSE IF nodeEnv = "development" /\ ~SandboxEnabled(enabledValue)
    THEN "passthrough"
    ELSE IF nodeEnv = "production" \/ FailClosedFlag(failClosedValue)
    THEN "docker_fail_closed"
    ELSE IF nodeEnv = "development" /\ SandboxEnabled(enabledValue)
    THEN "docker_fallback"
    ELSE "docker_fail_closed"

\* createSandbox called in a process environment
CreateSandboxCall(nodeEnv, enabledValue, failClosedValue) ==
    /\ last' = [ op |-> "createSandbox", id |-> 0, outcome |-> "returned",
                 nodeEnv |-> nodeEnv, enabledValue |-> enabledValue,
                 failClosedValue |-> failClosedValue,
                 result |-> CreateSandbox(nodeEnv, enabledValue, failClosedValue) ]
    /\ UNCHANGED <<registeredTools, adapters, workflowRun, requests, decisions, now, calls, routerVars>>

NodeEnvs == {"test", "development", "production", "staging", "TEST", "UNSET"}

EnabledValues == {"true", "false", "0", "UNSET"}

FailClosedValues == {"true", "false", "1", "TRUE", "UNSET"}

NextFactory ==
    \E nodeEnv \in NodeEnvs, enabledValue \in EnabledValues,
       failClosedValue \in FailClosedValues :
        CreateSandboxCall(nodeEnv, enabledValue, failClosedValue)

SpecFactory == InitStore /\ [][NextFactory]_vars

-----------------------------------------------------------------------------
(* Domain adapters: validation and registry                                *)

Digits == {"0", "1", "2", "3", "4", "5", "6", "7", "8", "9"}

\* the regular expression /^\d+\.\d+\.\d+$/ on a version given by its
\* characters
IsSemver(v) ==
    \E i, j \in 1..Len(v) :
        /\ 1 < i /\ i + 1 < j /\ j < Len(v)
        /\ v[i] = "." /\ v[j] = "."
        /\ \A k \in 1..Len(v) \ {i, j} : v[k] \in Digits

\* DomainAdapterMetadataSchema.safeParse succeeds
MetadataValid(adapter) ==
    /\ adapter.domain \in {"asi", "land"}
    /\ adapter.name # ""
    /\ IsSemver(adapter.version)

\* validateDomainAdapter: stageToRole
StageToRole(stage) ==
    CASE stage = "plan" -> "planner"
      [] stage = "execute" -> "worker"
      [] stage = "review" -> "reviewer"
      [] stage = "commit" -> "worker"
      [] OTHER -> "NONE"

\* validateDomainAdapter: the errors a workflow adds
WorkflowErrors(adapter, workflow) ==
    (IF workflow.domain # adapter.domain THEN {"workflow domain"} ELSE {})
    \cup { "stage without agent" : i \in
             { k \in 1..Len(workflow.stages) :
                 /\ StageToRole(workflow.stages[k]) # "NONE"
                 /\ \A a \in 1..Len(workflow.agents) :
                        workflow.agents[a].role # StageToRole(workflow.stages[k]) } }

\* validateDomainAdapter: the kinds of error found; warnings do not count
AdapterErrors(adapter) ==
    (IF MetadataValid(adapter) THEN {} ELSE {"metadata"})
    \cup { "tool handler" : i \in
             { k \in 1..Len(adapter.tools) : ~adapter.tools[k].handlerIsFunction } }
    \cup { "agent role" : i \in
             { k \in 1..Len(adapter.agents) :
                 adapter.agents[k].role \notin {"planner", "worker", "reviewer"} } }
    \cup UNION { WorkflowErrors(adapter, adapter.workflows[k]) :
                   k \in 1..Len(adapter.workflows) }

\* validateDomainAdapter(adapter).valid
ValidateDomainAdapter(adapter) == AdapterErrors(adapter) = {}

\* register that overwrites the adapter of a domain already registered
RegisterResultOverwrites(reg, adapter) ==
    IF ~ValidateDomainAdapter(adapter)
    THEN [threw |-> TRUE, error |-> "invalid", adapters |-> reg]
    ELSE [ threw |-> FALSE, error |-> "NONE",
           adapters |-> [d \in DOMAIN reg \cup {adapter.domain} |->
                           IF d = adapter.domain THEN adapter ELSE reg[d]] ]

\* DomainAdapterRegistry.register on the map reg
RegisterResult(reg, adapter) ==
    IF ~ValidateDomainAdapter(adapter)
    THEN [threw |-> TRUE, error |-> "invalid", adapters |-> reg]
    ELSE IF adapter.domain \in DOMAIN reg
    THEN [threw |-> TRUE, error |-> "duplicate", adapters |-> reg]
    ELSE [ threw |-> FALSE, error |-> "NONE",
           adapters |-> [d \in DOMAIN reg \cup {adapter.domain} |->
                           IF d = adapter.domain THEN adapter ELSE reg[d]] ]

\* the state after register returned r
Registered(adapter, r) ==
    /\ adapters' = r.adapters
    /\ last' = [ op |-> "register", id |-> 0,
                 outcome |-> IF r.threw THEN "threw" ELSE "returned",
                 adapter |-> adapter, error |-> r.error ]
    /\ UNCHANGED <<registeredTools, workflowRun, requests, decisions, now, calls, routerVars>>

\* DomainAdapterRegistry.register
Register(adapter) == Registered(adapter, RegisterResult(adapters, adapter))

\* DomainAdapterRegistry.unregister: Map.delete and its answer
Unregister(domain) ==
    /\ adapters' = [d \in DOMAIN adapters \ {domain} |-> adapters[d]]
    /\ last' = [ op |-> "unregister", id |-> 0, outcome |-> "returned",
                 domain |-> domain, result |-> domain \in DOMAIN adapters ]
    /\ UNCHANGED <<registeredTools, workflowRun, requests, decisions, now, calls, routerVars>>

\* DomainAdapterRegistry.clear
Clear ==
    /\ adapters' = <<>>
    /\ last' = [op |-> "clear", id |-> 0, outcome |-> "returned"]
    /\ UNCHANGED <<registeredTools, workflowRun, requests, decisions, now, calls, routerVars>>

\* an adapter that passes validation
ValidAdapter(domain, name) ==
    [ domain |-> domain, name |-> name, version |-> <<"1", ".", "0", ".", "0">>,
      tools |-> << [name |-> "asi.get_bookings", handlerIsFunction |-> TRUE] >>,
      agents |-> << [name |-> "worker", role |-> "worker"] >>,
      workflows |-> << [ name |-> "test_workflow", domain |-> domain,
                         stages |-> <<"execute">>,
                         agents |-> << [name |-> "worker", role |-> "worker"] >> ] >> ]

\* adapters with one fault each
FaultyAdapters ==
    LET a == ValidAdapter("asi", "ASI")
    IN  { ValidAdapter("other", "Other"),
          [a EXCEPT !.name = ""],
          [a EXCEPT !.version = <<"1", ".", "0">>],
          [a EXCEPT !.version = <<"v", "1", ".", "0", ".", "0">>],
          [a EXCEPT !.version = <<"1", ".", ".", "0">>],
          [a EXCEPT !.tools[1].handlerIsFunction = FALSE],
          [a EXCEPT !.agents[1].role = "manager"],
          [a EXCEPT !.workflows[1].domain = "land"],
          [a EXCEPT !.workflows[1].stages = <<"plan", "execute">>] }

\* adapters without fault: two per domain, one without components, one with
\* a stage that needs no agent
SoundAdapters ==
    { ValidAdapter(d, n) : d \in {"asi", "land"}, n \in {"First", "Second"} }
    \cup { [ValidAdapter("asi", "Bare") EXCEPT !.tools = <<>>, !.agents = <<>>,
                                                 !.workflows = <<>>],
           [ValidAdapter("land", "Long") EXCEPT
               !.version = <<"1", "2", ".", "0", ".", "3", "4">>,
               !.workflows[1].stages = <<"execute", "deploy">>] }

Adapters == SoundAdapters \cup FaultyAdapters

AdapterDomains == {"asi", "land", "other"}

NextRegistry ==
    \/ \E adapter \in Adapters : Register(adapter)
    \/ \E domain \in AdapterDomains : Unregister(domain)
    \/ Clear

SpecRegistry == InitStore /\ [][NextRegistry]_vars

-----------------------------------------------------------------------------
(* mergeAdapters: the lifecycle hooks of the merged adapter                *)

\* Most adapters given to mergeAdapters.
MaxMerged == 3

\* for (const adapter of list) await adapter.hook?.() from position i on:
\* the positions whose hook was called and whether one of them rejected,
\* which ends the loop; a hook is "NONE" when the adapter defines none
RECURSIVE RunHooks(_, _, _)
RunHooks(list, i, called) ==
    IF i > Len(list) THEN [called |-> called, rejected |-> FALSE]
    ELSE IF list[i].hook = "NONE" THEN RunHooks(list, i + 1, called)
    ELSE IF list[i].hook = "rejects"
    THEN [called |-> Append(called, list[i].position), rejected |-> TRUE]
    ELSE RunHooks(list, i + 1, Append(called, list[i].position))

\* [...list].reverse()
Reversed(list) == [i \in 1..Len(list) |-> list[Len(list) + 1 - i]]

\* the merged adapter's onShutdown without the reversal
MergedOnShutdownForward(list) ==
    RunHooks([i \in 1..Len(list) |->
                 [position |-> i, hook |-> list[i].onShutdown]], 1, <<>>)

\* the merged adapter's onInitialize
MergedOnInitialize(list) ==
    RunHooks([i \in 1..Len(list) |->
                 [position |-> i, hook |-> list[i].onInitialize]], 1, <<>>)

\* the merged adapter's onShutdown
MergedOnShutdown(list) ==
    RunHooks(Reversed([i \in 1..Len(list) |->
                          [position |-> i, hook |-> list[i].onShutdown]]), 1, <<>>)

\* mergeAdapters(...list) followed by one invocation of a hook of the
\* merged adapter; mergeAdapters throws when given no adapter
MergedHookCall(op, list, r) ==
    /\ last' = IF Len(list) = 0
               THEN [ op |-> "mergeAdapters", id |-> 0, outcome |-> "threw",
                      list |-> list ]
               ELSE [ op |-> op, id |-> 0,
                      outcome |-> IF r.rejected THEN "rejected" ELSE "resolved",
                      list |-> list, called |-> r.called ]
    /\ UNCHANGED <<registeredTools, adapters, workflowRun, requests, decisions, now, calls, routerVars>>

MergedInitialize(list) == MergedHookCall("onInitialize", list, MergedOnInitialize(list))

MergedShutdown(list) == MergedHookCall("onShutdown", list, MergedOnShutdown(list))

\* the hooks one adapter defines: none, both resolving, one of them only,
\* one of them rejecting
HookPairs ==
    { [onInitialize |-> "NONE", onShutdown |-> "NONE"],
      [onInitialize |-> "resolves", onShutdown |-> "resolves"],
      [onInitialize |-> "NONE", onShutdown |-> "resolves"],
      [onInitialize |-> "rejects", onShutdown |-> "resolves"],
      [onInitialize |-> "resolves", onShutdown |-> "rejects"] }

\* the hooks of the adapters given to mergeAdapters
HookLists == UNION { [1..n -> HookPairs] : n \in 0..MaxMerged }

NextMerge ==
    \/ \E list \in HookLists : MergedInitialize(list)
    \/ \E list \in HookLists : MergedShutdown(list)

SpecMerge == InitStore /\ [][NextMerge]_vars

-----------------------------------------------------------------------------
(* Tool registration                                                       *)

\* Map.set(name, value)
MapSet(map, name, value) ==
    [n \in DOMAIN map \cup {name} |-> IF n = name THEN value ELSE map[n]]

\* ToolRouter.registerTool: tools.set and handlers.set under definition.name
RegisterTool(definition, handler) ==
    /\ registeredTools' = MapSet(registeredTools, definition.name,
                                 [definition |-> definition, handler |-> handler])
    /\ last' = [ op |-> "registerTool", id |-> 0, outcome |-> "returned",
                 definition |-> definition, handler |-> handler,
                 replaced |-> definition.name \in DOMAIN registeredTools ]
    /\ UNCHANGED <<adapters, workflowRun, requests, decisions, now, calls, routerVars>>

\* ToolRouter.getTool
GetTool(name) ==
    /\ last' = IF name \in DOMAIN registeredTools
               THEN [ op |-> "getTool", id |-> 0, outcome |-> "found", name |-> name,
                      result |-> registeredTools[name].definition ]
               ELSE [ op |-> "getTool", id |-> 0, outcome |-> "undefined",
                      name |-> name ]
    /\ UNCHANGED <<registeredTools, adapters, workflowRun, requests, decisions, now,
                   calls, routerVars>>

ExecutionModes == {"DIRECT", "SANDBOX_ONLY"}

\* ToolDefinitionSchema: the fields the claims speak of; verified: the
\* definition carries a verification object of the schema's shape
ToolDefinitionWellFormed(definition) ==
    /\ definition.name # ""
    /\ definition.capability \in Capabilities
    /\ definition.risk \in Risks
    /\ definition.executionMode \in ExecutionModes
    /\ definition.verified

\* a well-formed definition
ToolDefinition(name, capability) ==
    [ name |-> name, capability |-> capability, risk |-> "LOW",
      executionMode |-> "DIRECT", verified |-> TRUE ]

\* definitions handed to registerTool: two well-formed ones of one name, and
\* ill-formed ones with one fault each
ToolDefinitions ==
    LET d == ToolDefinition("asi.stage_booking_create", "WRITE")
    IN  { ToolDefinition("asi.get_bookings", "READ"),
          ToolDefinition("asi.get_bookings", "WRITE"),
          ToolDefinition("", "READ"),
          [d EXCEPT !.capability = "EXECUTE"],
          [d EXCEPT !.risk = "SEVERE"],
          [d EXCEPT !.executionMode = "REMOTE"],
          [d EXCEPT !.verified = FALSE] }

ToolHandlers == {"handler-1", "handler-2"}

NextRegistration ==
    \/ \E definition \in ToolDefinitions, handler \in ToolHandlers :
           RegisterTool(definition, handler)
    \/ \E name \in {"", "asi.get_bookings", "asi.stage_booking_create"} : GetTool(name)

SpecRegistration == InitStore /\ [][NextRegistration]_vars

-----------------------------------------------------------------------------
(* Gate over the requests the orchestrator creates for commit tools        *)

\* the definition of a commit tool as the domain registers it
CommitToolDefinition(n) ==
    [ name |-> n, capability |-> "SIDE_EFFECTS",
      risk |-> IF n = "asi.commit_send_invoice" THEN "CRITICAL" ELSE "HIGH",
      executionMode |-> "SANDBOX_ONLY" ]

\* createApprovalRequest for a call of commit tool n in run-1 of
\* test_workflow under verdict v
OrchestratorRequest(n, v) ==
    ApprovalRequestInput([workflow |-> [name |-> "test_workflow"],
                          reviewerVerdict |-> v],
                         "worker", [tool |-> n, sandboxId |-> "NONE"])

NextCommitMatch ==
    \/ \E n \in DOMAIN COMMIT_TOOLS, v \in {"PASS", "FAIL"} :
           CreateRequest(OrchestratorRequest(n, v), FALSE)
    \/ \E id \in RequestIds, by \in Deciders, d \in DecisionTypes :
           CreateDecision(id, by, d, FALSE)
    \/ \E n \in DOMAIN COMMIT_TOOLS :
           EvaluateWithApprovalCall(CommitToolDefinition(n), "commit",
               ToolCall(n, "commit", "test_workflow"), "ok")

SpecCommitMatch == InitStore /\ [][NextCommitMatch]_vars

-----------------------------------------------------------------------------
(* SupabaseApprovalStore: createDecision against the database              *)

\* the checks createDecision makes in the application on the row it read
SupabaseDecisionCheck(reqs, t, id) ==
    IF ~HasRequest(reqs, id) THEN "not_found"
    ELSE IF reqs[id].status # "PENDING" THEN "bad_status"
    ELSE IF IsExpired(reqs[id], t) THEN "expired"
    ELSE "ok"

\* createDecision up to its insert: getRequest, the status and expiry
\* checks, and the insert sent to the database
SupabaseCreateDecisionCall(c, id, decidedBy, decision) ==
    /\ calls[c].pc = "idle"
    /\ LET chk == SupabaseDecisionCheck(requests, now, id)
       IN  IF chk = "ok"
           THEN /\ calls' = [calls EXCEPT ![c] =
                       [pc |-> "supabase.insert", id |-> id, decidedBy |-> decidedBy,
                        decision |-> decision, found |-> TRUE]]
                /\ last' = last
           ELSE /\ calls' = calls
                /\ last' = [op |-> "createDecision", id |-> id, outcome |-> chk]
    /\ UNCHANGED <<registeredTools, adapters, workflowRun, requests, decisions, now,
                   routerVars>>

\* the insert reaches the database: the UNIQUE constraint refuses a second
\* decision of the request; otherwise the row is stored and the trigger
\* update_approval_request_status sets the status of the request
SupabaseCreateDecisionInsert(c) ==
    /\ calls[c].pc = "supabase.insert"
    /\ LET a == calls[c]
       IN  IF a.id \in DOMAIN decisions
           THEN /\ UNCHANGED <<requests, decisions>>
                /\ last' = [op |-> "createDecision", id |-> a.id,
                            outcome |-> "already_decided"]
           ELSE /\ decisions' = DecisionsAfterDecision(decisions, a.id, a.decidedBy,
                                                       a.decision)
                /\ requests' = RequestsAfterDecision(requests, a.id, a.decision)
                /\ last' = [op |-> "createDecision", id |-> a.id,
                            outcome |-> "decision",
                            statusAtInsert |-> requests[a.id].status,
                            expiredAtInsert |-> IsExpired(requests[a.id], now)]
    /\ calls' = [calls EXCEPT ![c] = Idle]
    /\ UNCHANGED <<registeredTools, adapters, workflowRun, now, routerVars>>

NextSupabase ==
    \/ \E t \in AsyncClockValues : Tick(t)
    \/ \E input \in AsyncRequestInputs : CreateRequest(input, TRUE)
    \/ ExpireStaleRequests(TRUE)
    \/ \E c \in Callers, id \in RequestIds, by \in Deciders, d \in DecisionTypes :
           SupabaseCreateDecisionCall(c, id, by, d)
    \/ \E c \in Callers : SupabaseCreateDecisionInsert(c)

SpecSupabase == InitStore /\ [][NextSupabase]_vars

-----------------------------------------------------------------------------
(* executeCommit of apply_changes with a sandbox_id in its args            *)

\* Most audit events of commits kept in the log.
MaxCommits == 2

\* the sandbox whose staged changes gate 8 handed to executeApplyChanges:
\* approvalRequest.context.sandboxId
CountedSandbox(r) ==
    IF r.eligible THEN requests[r.approvalId].sandboxId ELSE "NONE"

\* appliedCount of executeApplyChanges: one per staged change it was handed
ChangesApplied(r, counted) ==
    IF counted = "NONE" THEN 0
    ELSE StagedCount(router.sandbox, stagedChanges, counted)

\* the result of executeApplyChanges as the observed operation
ApplyChangesResult(r, counted, sandboxArg) ==
    [ op |-> "commit", id |-> r.approvalId,
      outcome |-> IF r.eligible THEN "committed" ELSE "not_eligible",
      runId |-> "run-1", toolName |-> "asi.commit_apply_changes",
      success |-> r.eligible, logged |-> events' # events,
      sandboxArg |-> sandboxArg, countedSandbox |-> counted,
      changesApplied |-> ChangesApplied(r, counted),
      repeated |-> /\ r.eligible
                   /\ ChangesApplied(r, counted) > 0
                   /\ last.op = "commit"
                   /\ last.toolName = "asi.commit_apply_changes"
                   /\ last.success
                   /\ last.id = r.approvalId ]

\* executeCommit("asi.commit_apply_changes", runId, {sandbox_id: sandboxArg})
\* with eligibility r; sandboxArg is "NONE" when the args carry no sandbox_id
ExecuteApplyChanges(runId, sandboxArg, r) ==
    /\ router.boundary
    /\ Len(events) < MaxCommits
    /\ events' = IF r.eligible
                 THEN EventsAfterLog(events,
                          CommitEvent(runId, "asi.commit_apply_changes",
                                      requests[r.approvalId], TRUE))
                 ELSE events
    /\ stagedChanges' = IF r.eligible /\ sandboxArg # "NONE"
                        THEN StagedWithout(stagedChanges, sandboxArg)
                        ELSE stagedChanges
    /\ last' = ApplyChangesResult(r, CountedSandbox(r), sandboxArg)
    /\ UNCHANGED <<registeredTools, adapters, workflowRun, requests, decisions, now,
                   calls, router, dockerDaemon, dockerCache>>

ExecuteCommitApplyChanges(runId, sandboxArg, env) ==
    ExecuteApplyChanges(runId, sandboxArg,
        VerifyCommitEligibility(runId, "asi.commit_apply_changes", requests,
                                env.boundaryStore, router.sandbox, stagedChanges, now))

\* args.sandbox_id: absent, the sandbox of the request, another sandbox
SandboxArgs == {"NONE", "sb-1", "sb-2"}

ApplyStageInputs ==
    [ runId : {"run-1"}, toolName : {"asi.stage_booking_create"},
      hasHandler : {TRUE}, sandboxId : {"sb-1", "sb-2"} ]

NextApplyCommit ==
    \/ \E input \in ApplyRequestInputs : CreateRequest(input, FALSE)
    \/ \E id \in RequestIds, by \in Deciders, d \in CommitDecisionTypes :
           CreateDecision(id, by, d, FALSE)
    \/ \E input \in ApplyStageInputs : Execute(input, NoFault)
    \/ \E s \in SandboxArgs, env \in CommitEnvs :
           ExecuteCommitApplyChanges("run-1", s, env)

SpecApplyCommit == InitApply /\ [][NextApplyCommit]_vars

-----------------------------------------------------------------------------
(* ToolRouter.callParallel                                                 *)

\* Most requests of one batch.
MaxBatch == 3

\* what the batch keeps of a ToolCallResult
ResultOf(r, logged) ==
    [ outcome |-> r.outcome, success |-> r.success, error |-> r.error,
      handlerInvoked |-> r.handlerInvoked, logged |-> logged ]

\* the entry of a call that has not settled yet
Unsettled ==
    [ outcome |-> "unsettled", success |-> FALSE, error |-> "NONE",
      handlerInvoked |-> FALSE, logged |-> FALSE ]

\* this.call(request) of the request at position i of the batch, run on the
\* router state acc the calls completed before it have left; r is its result
AfterCall(request, i, acc, r, sandboxId) ==
    [ events |-> IF r.logs
                 THEN LogToolCall(acc.events, ToolCallEvent(request, r), "ok").events
                 ELSE acc.events,
      staged |-> IF r.run.staged = "none" THEN acc.staged
                 ELSE StagedAfter(acc.staged, sandboxId, r.run.staged),
      cache |-> r.cache,
      ok |-> acc.ok /\ (r.run.staged = "none" \/ sandboxId # "NONE"),
      calls |-> acc.calls + 1,
      handlerInvocations |-> acc.handlerInvocations
                               + (IF r.handlerInvoked THEN 1 ELSE 0),
      results |-> [acc.results EXCEPT ![i] =
                      ResultOf(r, r.logs /\ ValidateEvent(ToolCallEvent(request, r)))] ]

\* the calls of the batch, completing in the given order
RECURSIVE CallsInOrder(_, _, _, _)
CallsInOrder(batch, order, k, acc) ==
    IF k > Len(batch) THEN acc
    ELSE CallsInOrder(batch, order, k + 1,
             AfterCall(batch[order[k]], order[k], acc,
                       CallResult(router, batch[order[k]], NoFault, requests,
                                  acc.staged, acc.cache, dockerDaemon, now),
                       SandboxIdFor(acc.staged, "NONE")))

\* a loop over settled that keeps the first result stored under a name
ParallelMapFirstWins(batch, results) ==
    [ name \in {batch[i].toolName : i \in 1..Len(batch)} |->
        results[CHOOSE i \in 1..Len(batch) :
                    /\ batch[i].toolName = name
                    /\ \A j \in 1..(i - 1) : batch[j].toolName # name] ]

\* for (const {toolName, result} of settled) results.set(toolName, result),
\* from position k of the batch on
RECURSIVE SetFrom(_, _, _, _)
SetFrom(batch, results, k, map) ==
    IF k > Len(batch) THEN map
    ELSE SetFrom(batch, results, k + 1, MapSet(map, batch[k].toolName, results[k]))

\* the map callParallel returns: Promise.all keeps the batch order
ParallelMap(batch, results) == SetFrom(batch, results, 1, <<>>)

\* callParallel once all calls have settled in state acc
CallParallelSettled(batch, order, acc) ==
    /\ acc.ok
    /\ events' = acc.events
    /\ stagedChanges' = acc.staged
    /\ dockerCache' = acc.cache
    /\ last' = [ op |-> "callParallel", id |-> 0, outcome |-> "returned",
                 batch |-> batch, order |-> order, results |-> acc.results,
                 map |-> ParallelMap(batch, acc.results),
                 calls |-> acc.calls,
                 handlerInvocations |-> acc.handlerInvocations,
                 logged |-> Len(acc.events) - Len(events) ]
    /\ UNCHANGED <<registeredTools, adapters, workflowRun, requests, decisions, now,
                   calls, router, dockerDaemon>>

\* ToolRouter.callParallel; order is the order in which the calls complete
CallParallel(batch, order) ==
    /\ Len(events) < MaxEvents
    /\ CallParallelSettled(batch, order,
           CallsInOrder(batch, order, 1,
               [ events |-> events, staged |-> stagedChanges, cache |-> dockerCache,
                 ok |-> TRUE, calls |-> 0, handlerInvocations |-> 0,
                 results |-> [i \in 1..Len(batch) |-> Unsettled] ]))

ParallelRequests ==
    { ToolCall("asi.get_bookings", "plan", "test_workflow"),
      ToolCall("asi.get_bookings", "commit", "test_workflow"),
      ToolCall("asi.stage_booking_create", "execute", "test_workflow"),
      NoContextCall }

Batches == UNION { [1..n -> ParallelRequests] : n \in 0..MaxBatch }

\* the orders in which n calls can complete
CompletionOrders(n) ==
    { f \in [1..n -> 1..n] : \A i, j \in 1..n : i # j => f[i] # f[j] }

NextParallel ==
    \E batch \in Batches : \E order \in CompletionOrders(Len(batch)) :
        CallParallel(batch, order)

SpecParallel == InitRouter /\ [][NextParallel]_vars

-----------------------------------------------------------------------------
(* Properties of the approval store                                        *)

StatusUnchanged ==
    /\ Len(requests') = Len(requests)
    /\ \A i \in 1..Len(requests) : requests'[i].status = requests[i].status

\* C4: a request created with trust level L4 is never auto-approve-eligible,
\* at creation and in every later state, whatever its reviewer verdict,
\* action type or workflow name.
C4_L4NeverEligible ==
    \A i \in 1..Len(requests) :
        requests[i].trustLevel = "L4" => ~requests[i].autoApproveEligible

\* an L4 request with verdict PASS and an allow-listed action type exists,
\* and an auto-approval of it has just been refused
C4_Witness ==
    \E i \in 1..Len(requests) :
        /\ requests[i].trustLevel = "L4"
        /\ requests[i].reviewerVerdict = "PASS"
        /\ requests[i].actionType \in AUTO_APPROVE_ALLOW_LIST
        /\ last = [op |-> "autoApprove", id |-> i, outcome |-> "null"]

\* C5: under any interleaving of createDecision and autoApprove a decision,
\* once recorded for a request, is never replaced or removed (so a request
\* has at most one decision), and a createDecision that resumes on a request
\* that already has a decision ends with an error and leaves the request
\* statuses and the decisions as they were.
C5_AtMostOneDecision ==
    [][ /\ \A id \in DOMAIN decisions :
              id \in DOMAIN decisions' /\ decisions'[id] = decisions[id]
        /\ \A c \in Callers :
              ( /\ calls[c].pc \in {"createDecision", "autoApprove.createDecision"}
                /\ calls'[c].pc = "idle"
                /\ calls[c].id \in DOMAIN decisions )
              => /\ last'.id = calls[c].id
                 /\ last'.outcome \in {"not_found", "bad_status", "expired",
                                     "already_decided", "throw"}
                 /\ StatusUnchanged
                 /\ decisions' = decisions ]_vars

\* an autoApprove that passed its gates lost the race to a human decision:
\* its createDecision ended with an error, the human decision stands
C5_Witness ==
    /\ last.op = "autoApprove"
    /\ last.outcome = "throw"
    /\ last.id \in DOMAIN decisions
    /\ decisions[last.id].decidedBy = "human:alice"
    /\ requests[last.id].autoApproveReason = "auto"

\* C6: a request's status changes only from PENDING, and only to APPROVED,
\* REJECTED or EXPIRED; a status other than PENDING never changes again,
\* and no request is removed.
C6_StatusTransitions ==
    [][ /\ Len(requests') >= Len(requests)
        /\ \A i \in 1..Len(requests) :
              requests'[i].status # requests[i].status
              => /\ requests[i].status = "PENDING"
                 /\ requests'[i].status \in {"APPROVED", "REJECTED", "EXPIRED"} ]_vars

\* a createDecision on a request the expiry sweep had set to EXPIRED was refused
C6_Witness ==
    \E i \in 1..Len(requests) :
        /\ requests[i].status = "EXPIRED"
        /\ last = [op |-> "createDecision", id |-> i, outcome |-> "bad_status"]

\* the six gates of autoApprove, read off the request record
AutoApproveGatesHold(id) ==
    /\ HasRequest(requests, id)
    /\ requests[id].trustLevel # "L4"
    /\ requests[id].status = "PENDING"
    /\ requests[id].autoApproveEligible
    /\ requests[id].reviewerVerdict = "PASS"
    /\ ~(requests[id].expiresAt < now)

AutoApproveDecides(id) ==
    /\ last'.outcome = "decision"
    /\ id \notin DOMAIN decisions
    /\ DOMAIN decisions' = DOMAIN decisions \cup {id}
    /\ decisions'[id] = [decidedBy |-> "system:auto-approve", decision |-> "APPROVE"]
    /\ \A j \in DOMAIN decisions : decisions'[j] = decisions[j]
    /\ requests'[id].status = "APPROVED"
    /\ \A j \in 1..Len(requests) : j # id => requests'[j] = requests[j]

-----------------------------------------------------------------------------
(* Claims about the tool router                                            *)

\* the gate result call works with: evaluateWithApproval when the router
\* has an approval store, evaluate otherwise
GateOf(request, env) ==
    IF router.store
    THEN EvaluateWithApproval(Tools[request.toolName], request.stage, request,
                              requests, env.store)
    ELSE Evaluate(Tools[request.toolName], request.stage, request)

DeniedOutcomes == {"invalid_request", "unknown_tool", "missing_handler",
                   "gate_denied", "gate_exception", "boundary_denied"}

\* C1: a call invokes the handler only when the tool is registered with a
\* handler, the trust gate evaluated on the state before the call allows it
\* and, for a commit tool under a configured boundary, verifyCommitEligibility
\* evaluated on that state says eligible; no denied outcome invokes it.
C1_HandlerOnlyWhenAllowed ==
    [][\A request \in CallRequests, env \in CallEnvs :
          (last'.op = "call" /\ last'.request = request /\ Call(request, env)) =>
            /\ last'.handlerInvoked =>
                 /\ request.toolName \in Handlers
                 /\ request.hasContext
                 /\ GateOf(request, env).allowed
                 /\ (IsCommitTool(request.toolName) /\ router.boundary) =>
                        VerifyCommitEligibility(request.runId, request.toolName,
                            requests, env.boundaryStore, router.sandbox,
                            stagedChanges,
                            now).eligible
            /\ last'.outcome \in DeniedOutcomes => ~last'.handlerInvoked]_vars

\* a commit tool ran its handler under a configured boundary
C1_Witness ==
    /\ last.op = "call"
    /\ last.handlerInvoked
    /\ router.boundary
    /\ IsCommitTool(last.request.toolName)
    /\ last.eligible = "yes"

\* a commit tool was stopped by the boundary after the gate allowed it
C1_WitnessBoundaryDenied ==
    /\ last.op = "call"
    /\ last.outcome = "boundary_denied"
    /\ last.gate.allowed
    /\ ~last.handlerInvoked

\* C8: every call appends exactly one audit event carrying the call's run
\* id, tool name, stage and the trust level decided by the gate.
C8_OneEventPerCall ==
    [][\A request \in CallRequests, env \in CallEnvs :
          Call(request, env) =>
            /\ Len(events') = Len(events) + 1
            /\ LET e == events'[Len(events')]
               IN  /\ e.runId = request.runId
                   /\ e.toolName = request.toolName
                   /\ e.stage = request.stage
                   /\ e.trustLevel = last'.gate.trustLevel]_vars

\* C8 for calls that pass the request validation and whose context names a
\* workflow
C8_OneEventPerValidCall ==
    [][\A request \in CallRequests, env \in CallEnvs :
          (Call(request, env) /\ request.toolName # "" /\ request.hasContext
              /\ request.workflowName # "") =>
            /\ Len(events') = Len(events) + 1
            /\ LET e == events'[Len(events')]
               IN  /\ e.runId = request.runId
                   /\ e.toolName = request.toolName
                   /\ e.stage = request.stage
                   /\ e.trustLevel = last'.gate.trustLevel]_vars

\* a call with an empty tool name returned and the log is still empty
C8_UnloggedInvalidCall ==
    /\ last.op = "call"
    /\ last.outcome = "invalid_request"
    /\ events = <<>>

\* a call was executed successfully and left no event
C8_UnloggedExecutedCall ==
    /\ last.op = "call"
    /\ last.outcome = "executed"
    /\ last.success
    /\ events = <<>>

-----------------------------------------------------------------------------
(* Claims about the fail-closed sandbox                                    *)

\* the isolation facility is unavailable and the sandbox fails closed
FailClosedUnavailable ==
    \/ router.sandbox = "fail_closed"
    \/ router.sandbox = "docker_fail_closed" /\ dockerDaemon # "available"

SandboxOnly(toolName) ==
    toolName \in DOMAIN Tools /\ Tools[toolName].executionMode = "SANDBOX_ONLY"

DockerDenialReasons == {"DOCKER_NOT_AVAILABLE", "DOCKER_NOT_RUNNING"}

\* C9: with the isolation facility unavailable and fail-closed mode on, every
\* sandbox execute of a well-formed input in a healthy environment returns
\* success=false, deniedByPolicy=true and failureReason DOCKER_NOT_AVAILABLE
\* or DOCKER_NOT_RUNNING without invoking the handler, and every call of a
\* SANDBOX_ONLY tool leaves the handler uninvoked, reports failure and
\* appends an audit event that records the failure.
C9_FailClosedDenial ==
    [][/\ \A input \in ExecuteInputs :
            (FailClosedUnavailable /\ ValidateInput(input) /\ Execute(input, NoFault)) =>
              /\ ~last'.run.handlerInvoked
              /\ ~last'.run.success
              /\ last'.run.deniedByPolicy
              /\ last'.run.failureReason \in DockerDenialReasons
       /\ \A request \in SandboxCallRequests :
            (FailClosedUnavailable /\ SandboxOnly(request.toolName)
                /\ Call(request, NoFault)) =>
              /\ ~last'.handlerInvoked
              /\ ~last'.success
              /\ Len(events') = Len(events) + 1
              /\ events'[Len(events')].failed]_vars

\* the handler part of C9 alone: no execute and no call of a SANDBOX_ONLY
\* tool invokes the handler while the sandbox fails closed
C9_HandlerNeverInvoked ==
    [][/\ \A input \in ExecuteInputs, env \in SandboxEnvs :
            (FailClosedUnavailable /\ Execute(input, env)) =>
              ~last'.run.handlerInvoked /\ ~last'.run.success
       /\ \A request \in SandboxCallRequests, env \in SandboxEnvs :
            (FailClosedUnavailable /\ SandboxOnly(request.toolName)
                /\ Call(request, env)) =>
              ~last'.handlerInvoked /\ ~last'.success]_vars

\* the availability answer cached while Docker ran is still trusted after
\* the daemon stopped: the execute fails without the denial fields
C9_StaleCacheResult ==
    /\ last.op = "execute"
    /\ router.sandbox = "docker_fail_closed"
    /\ dockerDaemon # "available"
    /\ dockerCache.known /\ dockerCache.value
    /\ ~last.run.success
    /\ ~last.run.deniedByPolicy
    /\ last.run.failureReason = "NONE"

\* a SANDBOX_ONLY call was denied by the fail-closed sandbox and no audit
\* event was stored
C9_DenialNotAudited ==
    /\ last.op = "call"
    /\ router.sandbox = "fail_closed"
    /\ last.run.deniedByPolicy
    /\ events = <<>>

-----------------------------------------------------------------------------
(* Claims about approvals and commits                                      *)

\* a request matches a tool when the gate's or the boundary's find accepts
\* its action type
MatchesTool(request, toolName) ==
    \/ request.actionType = toolName
    \/ IncludesLastSegment(request.actionType, toolName)
    \/ IsCommitTool(toolName) /\ request.actionType = COMMIT_TOOLS[toolName].actionType

\* a human APPROVE decision stands on a request of the run matching the tool
HumanApproved(runId, toolName) ==
    \E i \in 1..Len(requests) :
        /\ requests[i].runId = runId
        /\ MatchesTool(requests[i], toolName)
        /\ i \in DOMAIN decisions
        /\ decisions[i].decision = "APPROVE"
        /\ decisions[i].decidedBy # "system:auto-approve"

\* C2: the handler of a tool whose gate trust level is L4 is invoked only if
\* the run's matching approval request carries an APPROVE decision made by
\* someone other than system:auto-approve.
C2_L4NeedsHumanApproval ==
    [][\A request \in CommitCallRequests, env \in CommitEnvs :
          (/\ last'.op = "call" /\ last'.request = request
           /\ Call(request, env)
           /\ last'.handlerInvoked
           /\ last'.gate.trustLevel = "L4") =>
            HumanApproved(request.runId, request.toolName)]_vars

\* an L4 tool ran under a commit boundary on an auto-approved request
C2_L4RanOnAutoApproval ==
    /\ last.op = "call"
    /\ router.boundary
    /\ last.handlerInvoked
    /\ last.gate.trustLevel = "L4"
    /\ last.id \in DOMAIN decisions
    /\ decisions[last.id].decidedBy = "system:auto-approve"

\* an L4 commit tool ran without a boundary on an auto-approved request
C2_InvoiceRanOnAutoApproval ==
    /\ last.op = "call"
    /\ ~router.boundary
    /\ last.handlerInvoked
    /\ last.request.toolName = "asi.commit_send_invoice"
    /\ decisions[last.id].decidedBy = "system:auto-approve"

\* an APPROVED request with verdict PASS of the run matches the tool
ApprovedPassExists(runId, toolName) ==
    \E i \in 1..Len(requests) :
        /\ requests[i].runId = runId
        /\ MatchesTool(requests[i], toolName)
        /\ requests[i].status = "APPROVED"
        /\ requests[i].reviewerVerdict = "PASS"

\* C3: when executeCommit succeeds, or a call of a commit tool in the commit
\* stage invokes the handler, an APPROVED request with verdict PASS of the
\* same run matching the tool exists in the state before the operation, which
\* is before the operation appends its audit event; the operation does not
\* create it.
C3_CommitHasPriorApproval ==
    [][/\ \A request \in CommitCallRequests, env \in CommitEnvs :
            (/\ last'.op = "call" /\ last'.request = request
             /\ Call(request, env)
             /\ IsCommitTool(request.toolName) /\ request.stage = "commit"
             /\ last'.handlerInvoked) =>
              /\ ApprovedPassExists(request.runId, request.toolName)
              /\ requests' = requests
       /\ \A n \in CommitToolNames, argsOk \in BOOLEAN, env \in CommitEnvs :
            (/\ last'.op = "commit" /\ last'.toolName = n
             /\ ExecuteCommit("run-1", n, argsOk, env)
             /\ last'.success) =>
              /\ ApprovedPassExists("run-1", n)
              /\ requests' = requests]_vars

\* executeCommit succeeded and its audit event is in the log
C3_Witness ==
    /\ last.op = "commit"
    /\ last.success
    /\ last.logged
    /\ events # <<>>
    /\ events[Len(events)].toolName = last.toolName

\* a call of a commit tool in the commit stage ran the handler
C3_WitnessCall ==
    /\ last.op = "call"
    /\ IsCommitTool(last.request.toolName)
    /\ last.request.stage = "commit"
    /\ last.handlerInvoked
    /\ last.logged

\* C10: verifyCommitEligibility answers eligible only if the tool is in the
\* commit-tool registry, the store did not fail, and the run has a matching
\* request with trust level at least the tool's minimum, status APPROVED,
\* verdict PASS and an expiry not before now.
C10_EligibleOnlyIf ==
    [][\A n \in CommitToolNames, env \in CommitEnvs :
          (/\ last'.op = "verify" /\ last'.toolName = n
           /\ VerifyCommitEligibilityCall("run-1", n, env)
           /\ last'.eligible) =>
            /\ IsCommitTool(n)
            /\ env.boundaryStore # "error"
            /\ \E i \in 1..Len(requests) :
                 /\ requests[i].runId = "run-1"
                 /\ \/ requests[i].actionType = n
                    \/ requests[i].actionType = COMMIT_TOOLS[n].actionType
                 /\ TrustIndex(requests[i].trustLevel)
                        >= TrustIndex(COMMIT_TOOLS[n].minTrustLevel)
                 /\ COMMIT_TOOLS[n].minTrustLevel
                        = (IF n = "asi.commit_send_invoice" THEN "L4" ELSE "L3")
                 /\ requests[i].status = "APPROVED"
                 /\ requests[i].reviewerVerdict = "PASS"
                 /\ requests[i].expiresAt >= now]_vars

\* send_invoice was found eligible on a human-approved L4 request
C10_Witness ==
    /\ last.op = "verify"
    /\ last.eligible
    /\ last.toolName = "asi.commit_send_invoice"

\* an approved request past its expiry was refused
C10_WitnessExpired ==
    /\ last.op = "verify"
    /\ ~last.eligible
    /\ last.outcome = "expired"
    /\ requests[last.id].status = "APPROVED"

-----------------------------------------------------------------------------
(* Claims about apply_changes and the commit audit trail                   *)

\* C11: verifyCommitEligibility answers eligible for apply_changes only if
\* the request it found names a sandbox and that sandbox holds at least one
\* staged change.
C11_ApplyNeedsStagedChanges ==
    [][\A env \in CommitEnvs :
          (/\ last'.op = "verify" /\ last'.toolName = "asi.commit_apply_changes"
           /\ VerifyCommitEligibilityCall("run-1", "asi.commit_apply_changes", env)
           /\ last'.eligible) =>
            /\ requests[last'.id].sandboxId # "NONE"
            /\ StagedCount(router.sandbox, stagedChanges,
                           requests[last'.id].sandboxId) > 0]_vars

\* C11 for requests whose context names a sandbox
C11_NamedSandboxNeedsStagedChanges ==
    [][\A env \in CommitEnvs :
          (/\ last'.op = "verify" /\ last'.toolName = "asi.commit_apply_changes"
           /\ VerifyCommitEligibilityCall("run-1", "asi.commit_apply_changes", env)
           /\ last'.eligible
           /\ requests[last'.id].sandboxId # "NONE") =>
            StagedCount(router.sandbox, stagedChanges,
                        requests[last'.id].sandboxId) > 0]_vars

\* apply_changes was found eligible on a request without a sandbox while
\* nothing is staged anywhere
C11_EligibleWithoutSandbox ==
    /\ last.op = "verify"
    /\ last.toolName = "asi.commit_apply_changes"
    /\ last.eligible
    /\ requests[last.id].sandboxId = "NONE"
    /\ stagedChanges = <<>>

\* apply_changes was refused because the named sandbox holds nothing
C11_RefusedWithoutStagedChanges ==
    /\ last.op = "verify"
    /\ last.toolName = "asi.commit_apply_changes"
    /\ last.outcome = "no_staged_changes"

\* C12: every executeCommit, whether it succeeds, is refused by the
\* eligibility gates or fails in its handler, appends exactly one audit
\* event at stage commit naming the tool.
C12_OneEventPerCommit ==
    [][\A n \in CommitToolNames, argsOk \in BOOLEAN, env \in CommitEnvs :
          (/\ last'.op = "commit" /\ last'.toolName = n
           /\ ExecuteCommit("run-1", n, argsOk, env)) =>
            /\ Len(events') = Len(events) + 1
            /\ events'[Len(events')].stage = "commit"
            /\ events'[Len(events')].toolName = n]_vars

\* C12 for the commits that pass the eligibility gates, failed ones included
C12_OneEventPerEligibleCommit ==
    [][\A n \in CommitToolNames, argsOk \in BOOLEAN, env \in CommitEnvs :
          (/\ last'.op = "commit" /\ last'.toolName = n
           /\ ExecuteCommit("run-1", n, argsOk, env)
           /\ last'.outcome # "not_eligible") =>
            /\ Len(events') = Len(events) + 1
            /\ events'[Len(events')].stage = "commit"
            /\ events'[Len(events')].toolName = n
            /\ events'[Len(events')].failed = ~last'.success]_vars

\* an executeCommit was refused by the gates and the log is still empty
C12_RefusedCommitNotAudited ==
    /\ last.op = "commit"
    /\ last.outcome = "not_eligible"
    /\ ~last.logged
    /\ events = <<>>

\* an executeCommit failed in its handler and was audited as failed
C12_FailedCommitAudited ==
    /\ last.op = "commit"
    /\ last.outcome = "failed"
    /\ last.logged
    /\ events[Len(events)].failed

-----------------------------------------------------------------------------
(* Claims about the orchestrator                                           *)

\* a runWorkflow invocation is past its validation and not yet returned
Running == workflowRun.pc \in {"stage", "agent"}

\* the stage whose agent is running
AgentStage == workflowRun.workflow.stages[workflowRun.index]

\* C13: when the output of the review stage carries verdict FAIL, runWorkflow
\* returns with status failed, creates no approval request and runs no agent
\* any more; a run that has returned does nothing further.
C13_ReviewFailEndsRun ==
    [][/\ \A text \in Texts :
            (/\ workflowRun.pc = "agent"
             /\ AgentStage = "review"
             /\ ~text.empty
             /\ ExtractReviewerVerdict(text) = "FAIL"
             /\ AgentText(text)) =>
               /\ workflowRun'.pc = "done"
               /\ workflowRun'.status = "failed"
               /\ workflowRun'.reviewerVerdict = "FAIL"
               /\ workflowRun'.agentsRun = workflowRun.agentsRun
               /\ workflowRun'.created = workflowRun.created
               /\ requests' = requests
       /\ workflowRun.pc = "done" => UNCHANGED <<workflowRun, requests, decisions>>
      ]_vars

\* a run whose reviewer said FAIL has returned failed, before any commit stage
C13_Witness ==
    /\ workflowRun.pc = "done"
    /\ workflowRun.status = "failed"
    /\ workflowRun.error = "reviewer_fail"
    /\ workflowRun.agentsRun = <<"plan", "execute", "review">>
    /\ requests = <<>>

\* C14: the agent of the commit stage runs only while the reviewer verdict
\* in effect is PASS.
C14_CommitOnlyOnPass ==
    (workflowRun.pc = "agent" /\ AgentStage = "commit") =>
        workflowRun.reviewerVerdict = "PASS"

\* C14 for the missing verdict: the agent of the commit stage never runs
\* without a verdict, and the run that reaches the commit stage without one
\* returns failed
C14_CommitNeedsVerdict ==
    [][(/\ workflowRun.pc = "stage"
        /\ workflowRun.index <= Len(workflowRun.workflow.stages)
        /\ workflowRun.workflow.stages[workflowRun.index] = "commit"
        /\ workflowRun.reviewerVerdict = "NONE"
        /\ EnterStage) =>
           /\ workflowRun'.pc = "done"
           /\ workflowRun'.status = "failed"
           /\ workflowRun'.agentsRun = workflowRun.agentsRun]_vars

\* the commit agent is asked for its next step under a FAIL verdict that
\* came with the run options
C14_CommitRunOnFail ==
    /\ workflowRun.pc = "agent"
    /\ AgentStage = "commit"
    /\ workflowRun.reviewerVerdict = "FAIL"
    /\ workflowRun.llmCalls > 0

\* a run without verdict was stopped at its commit stage
C14_BlockedWithoutVerdict ==
    /\ workflowRun.pc = "done"
    /\ workflowRun.error = "missing_verdict"
    /\ "commit" \notin {workflowRun.agentsRun[i] : i \in 1..Len(workflowRun.agentsRun)}

\* the handler of a commit tool ran in the commit stage
CommitHandlerRan ==
    \E i \in 1..Len(workflowRun.handlers) :
        /\ workflowRun.handlers[i].stage = "commit"
        /\ IsCommitTool(workflowRun.handlers[i].tool)

\* C15: a run that auto-approved the approval request of its commit stage
\* and returned completed has invoked the handler of the commit tool.
C15_CommitAfterAutoApproval ==
    (/\ workflowRun.pc = "done"
     /\ workflowRun.status = "completed"
     /\ workflowRun.autoApproved # {}) => CommitHandlerRan

\* a run returned completed on an auto-approved request whose commit tool
\* was never executed
C15_CompletedWithoutCommit ==
    /\ workflowRun.pc = "done"
    /\ workflowRun.status = "completed"
    /\ workflowRun.autoApproved # {}
    /\ workflowRun.handlers = <<>>
    /\ workflowRun.workflow.stages = <<"plan", "execute", "review", "commit">>

\* the gate does not match the request the orchestrator creates (its action
\* type is the registry's, not the tool name), so no run of the orchestrator
\* on its own executes a commit tool
C15_CommitNeverExecuted == workflowRun.pc # "idle" => ~CommitHandlerRan

\* the workflow breaks an invariant of WorkflowDefinition: a commit stage
\* without an earlier review stage, or a stage without an agent of its role
ViolatesInvariants(workflow) ==
    \/ \E c \in 1..Len(workflow.stages) :
          /\ workflow.stages[c] = "commit"
          /\ \A r \in 1..(c - 1) : workflow.stages[r] # "review"
    \/ \E i \in 1..Len(workflow.stages) :
          /\ workflow.stages[i] \in VALID_STAGES
          /\ RoleForStage(workflow.stages[i]) \notin workflow.roles

\* C16: for a workflow that breaks the invariants no agent is run, no model
\* request and no tool call is made, and the run returns failed.
C16_NoAgentForInvalidWorkflow ==
    (workflowRun.pc # "idle" /\ ViolatesInvariants(workflowRun.workflow)) =>
        /\ workflowRun.agentsRun = <<>>
        /\ workflowRun.llmCalls = 0
        /\ workflowRun.toolsCalled = 0
        /\ workflowRun.pc = "done" => workflowRun.status = "failed"

\* C16 for the commit stage without an earlier review stage
C16_NoAgentForCommitWithoutReview ==
    (/\ workflowRun.pc # "idle"
     /\ \E c \in 1..Len(workflowRun.workflow.stages) :
           /\ workflowRun.workflow.stages[c] = "commit"
           /\ \A r \in 1..(c - 1) : workflowRun.workflow.stages[r] # "review") =>
        /\ workflowRun.pc = "done"
        /\ workflowRun.status = "failed"
        /\ workflowRun.agentsRun = <<>>
        /\ workflowRun.llmCalls = 0

\* the planner ran and called a tool in a workflow without a worker for its
\* execute stage
C16_AgentRanBeforeMissingAgent ==
    /\ workflowRun.pc = "done"
    /\ workflowRun.error = "missing_agent"
    /\ workflowRun.agentsRun = <<"plan">>
    /\ workflowRun.toolsCalled > 0

\* a workflow with its commit stage before its review stage was turned away
C16_RejectedCommitBeforeReview ==
    /\ workflowRun.pc = "done"
    /\ workflowRun.error = "commit_without_review"
    /\ workflowRun.workflow.stages = <<"commit", "review">>

-----------------------------------------------------------------------------
(* Claims about expiry                                                     *)

\* request id is PENDING in the store and the clock has reached its expiry
PendingAtOrPastExpiry(id) ==
    /\ HasRequest(requests, id)
    /\ requests[id].status = "PENDING"
    /\ now >= requests[id].expiresAt

\* request id is PENDING in the store and the clock is past its expiry
PendingPastExpiry(id) ==
    /\ HasRequest(requests, id)
    /\ requests[id].status = "PENDING"
    /\ now > requests[id].expiresAt

\* C17: once now >= expiresAt, a PENDING request is left out by
\* getPendingRequests, isPending answers false for it, and neither
\* createDecision nor autoApprove produces a decision for it.
C17_ExpiredAtExpiry ==
    [][\A id \in RequestIds :
          PendingAtOrPastExpiry(id) =>
            /\ (last'.op = "isPending" /\ IsPendingCall(id)) => last'.outcome = "false"
            /\ (last'.op = "getPendingRequests" /\ GetPendingRequestsCall) =>
                   id \notin last'.outcome
            /\ (\E by \in Deciders, d \in ExpiryDecisionTypes :
                   CreateDecision(id, by, d, TRUE)) => decisions' = decisions
            /\ AutoApprove(id, TRUE) => decisions' = decisions]_vars

\* C17 for the instants after the expiry
C17_ExpiredPastExpiry ==
    [][\A id \in RequestIds :
          PendingPastExpiry(id) =>
            /\ (last'.op = "isPending" /\ IsPendingCall(id)) => last'.outcome = "false"
            /\ (last'.op = "getPendingRequests" /\ GetPendingRequestsCall) =>
                   id \notin last'.outcome
            /\ (\E by \in Deciders, d \in ExpiryDecisionTypes :
                   CreateDecision(id, by, d, TRUE)) =>
                   decisions' = decisions /\ requests' = requests
            /\ AutoApprove(id, TRUE) =>
                   decisions' = decisions /\ requests' = requests]_vars

\* at the instant of its expiry a request was decided
C17_DecidedAtExpiry ==
    /\ last.op = "createDecision"
    /\ last.outcome = "decision"
    /\ requests[last.id].expiresAt = now

\* at the instant of its expiry isPending answers true for a request that
\* getPendingRequests leaves out
C17_PendingAtExpiry ==
    /\ last.op = "isPending"
    /\ last.outcome = "true"
    /\ requests[last.id].expiresAt = now
    /\ last.id \notin GetPendingRequests(requests, now)

\* past its expiry and unswept, a request was refused a decision
C17_RefusedPastExpiry ==
    /\ last.op = "createDecision"
    /\ last.outcome = "expired"
    /\ requests[last.id].status = "PENDING"

\* what one expireStaleRequests does: every PENDING request whose expiry has
\* passed becomes EXPIRED, no other request changes, and the number changed
\* is returned
SweepEffect ==
    /\ Len(requests') = Len(requests)
    /\ \A i \in 1..Len(requests) :
          requests'[i] =
              IF requests[i].status = "PENDING" /\ requests[i].expiresAt < now
              THEN [requests[i] EXCEPT !.status = "EXPIRED"]
              ELSE requests[i]
    /\ last'.op = "expireStaleRequests"
    /\ last'.outcome = Cardinality({i \in 1..Len(requests) : requests'[i] # requests[i]})

\* C18 (amended): expireStaleRequests sets every PENDING request whose expiry
\* has passed to EXPIRED, changes no other request and returns the number it
\* changed; a second invocation at the same clock reading would find nothing
\* left to expire and return 0.
C18_Sweep ==
    [][ExpireStaleRequests(TRUE) =>
          /\ SweepEffect
          /\ {i \in 1..Len(requests') :
                 requests'[i].status = "PENDING" /\ requests'[i].expiresAt < now} = {}]_vars

\* C18 as stated: in addition, a sweep that follows a sweep with no store
\* operation in between, whatever time has passed, returns 0.
C18_AsStated ==
    [][ExpireStaleRequests(TRUE) =>
          /\ SweepEffect
          /\ last.op = "expireStaleRequests" => last'.outcome = 0]_vars

\* a sweep expired one request and left a live one alone
C18_Witness ==
    /\ last.op = "expireStaleRequests"
    /\ last.outcome = 1
    /\ \E i, j \in 1..Len(requests) :
          requests[i].status = "EXPIRED" /\ requests[j].status = "PENDING"

-----------------------------------------------------------------------------
(* Claims about the trust gate                                             *)

\* the requests of the run whose action type the gate accepts for the tool
MatchingIds(runId, toolName) ==
    {i \in 1..Len(requests) :
        /\ requests[i].runId = runId
        /\ \/ requests[i].actionType = toolName
           \/ IncludesLastSegment(requests[i].actionType, toolName)}

\* C19: when the call requires approval, evaluateWithApproval with a store
\* allows only if the run has a matching request that is APPROVED and, where
\* a reviewer verdict is required, has verdict PASS; it denies when there is
\* no matching request or the first matching request is PENDING, REJECTED or
\* EXPIRED; and evaluate never allows a commit tool in the commit stage.
C19_ApprovalGate ==
    [][\A c \in GateCalls :
          LET context == ToolCall(c.tool.name, c.stage, "test_workflow")
              basic == Evaluate(c.tool, c.stage, context)
              ids == MatchingIds(context.runId, c.tool.name)
          IN  /\ \A storeState \in {"ok", "error"} :
                    (/\ last'.op = "evaluateWithApproval"
                     /\ last'.tool = c.tool /\ last'.stage = c.stage
                     /\ EvaluateWithApprovalCall(c.tool, c.stage, context, storeState)
                     /\ basic.requiresApproval) =>
                      /\ last'.result.allowed =>
                            \E i \in ids :
                               /\ requests[i].status = "APPROVED"
                               /\ basic.requiresReviewerVerdict =>
                                      requests[i].reviewerVerdict = "PASS"
                      /\ ids = {} => ~last'.result.allowed
                      /\ (ids # {} /\ requests[CHOOSE i \in ids : \A j \in ids : i <= j].status
                                         \in {"PENDING", "REJECTED", "EXPIRED"}) =>
                            ~last'.result.allowed
              /\ (/\ last'.op = "evaluate"
                  /\ last'.tool = c.tool /\ last'.stage = c.stage
                  /\ EvaluateCall(c.tool, c.stage, context)
                  /\ IsCommitTool(c.tool.name) /\ c.stage = "commit") =>
                   ~last'.result.allowed]_vars

\* the gate allowed a commit tool in the commit stage on an approved request
C19_Witness ==
    /\ last.op = "evaluateWithApproval"
    /\ last.result.allowed
    /\ last.stage = "commit"
    /\ IsCommitTool(last.tool.name)
    /\ last.result.approvalStatus = "APPROVED"

\* the gate denied on an expired request
C19_WitnessExpired ==
    /\ last.op = "evaluateWithApproval"
    /\ ~last.result.allowed
    /\ last.result.approvalStatus = "EXPIRED"

\* the highest trust level the claim gives for a stage
StageMaximum(stage) ==
    CASE stage \in {"plan", "review"} -> "L1"
      [] stage = "execute" -> "L2"
      [] stage = "commit" -> "L4"

\* the capabilities the spec allows in a stage
StageCapabilities(stage) ==
    CASE stage \in {"plan", "review"} -> {"READ", "PROPOSE"}
      [] stage = "execute" -> {"READ", "PROPOSE", "WRITE"}
      [] stage = "commit" -> {"READ", "PROPOSE", "WRITE", "SIDE_EFFECTS"}

\* C20: evaluate allows only a recognised stage, a trust level (override
\* included) not above the stage maximum and a capability of the stage's
\* allowed set; outside the commit stage nothing with capability
\* SIDE_EFFECTS and nothing above L2 is allowed.
C20_StagePolicy ==
    (last.op = "evaluate" /\ last.result.allowed) =>
        /\ last.stage \in VALID_STAGES
        /\ last.result.trustLevel =
               (IF last.tool.name \in DOMAIN toolOverrides
                THEN toolOverrides[last.tool.name]
                ELSE last.result.trustLevel)
        /\ TrustIndex(last.result.trustLevel) <= TrustIndex(StageMaximum(last.stage))
        /\ last.tool.capability \in StageCapabilities(last.stage)
        /\ last.stage # "commit" =>
              /\ last.tool.capability # "SIDE_EFFECTS"
              /\ TrustIndex(last.result.trustLevel) <= TrustIndex("L2")

\* a CRITICAL tool overridden to L0 was allowed in the plan stage
C20_Witness ==
    /\ last.op = "evaluate"
    /\ last.result.allowed
    /\ last.stage = "plan"
    /\ last.tool.risk = "CRITICAL"
    /\ last.result.trustLevel = "L0"

\* a SIDE_EFFECTS tool overridden to L0 was denied in the execute stage
C20_WitnessDenied ==
    /\ last.op = "evaluate"
    /\ ~last.result.allowed
    /\ last.stage = "execute"
    /\ last.tool.capability = "SIDE_EFFECTS"
    /\ last.result.trustLevel = "L0"

-----------------------------------------------------------------------------
(* Claims about the trust level of a tool                                  *)

\* the level the taxonomy gives to a risk and a capability
TaxonomyLevel(risk, capability) ==
    CASE risk = "CRITICAL" -> "L4"
      [] risk = "HIGH" /\ capability = "SIDE_EFFECTS" -> "L3"
      [] risk = "HIGH" /\ capability # "SIDE_EFFECTS" -> "L2"
      [] risk \notin {"CRITICAL", "HIGH"} /\ capability = "WRITE" -> "L2"
      [] risk \notin {"CRITICAL", "HIGH"} /\ capability = "PROPOSE" -> "L1"
      [] OTHER -> "L0"

\* C21: getTrustLevelForTool returns the configured override of the tool's
\* name if there is one, otherwise L4 for risk CRITICAL, L3 for HIGH with
\* SIDE_EFFECTS, L2 for HIGH or WRITE, L1 for PROPOSE and L0 for the rest;
\* inferTrustLevel gives the same level to a risk and a capability.
C21_TrustLevel ==
    /\ last.op = "getTrustLevelForTool" =>
          last.result =
              IF last.tool.name \in DOMAIN last.overrides
              THEN last.overrides[last.tool.name]
              ELSE TaxonomyLevel(last.tool.risk, last.tool.capability)
    /\ last.op = "inferTrustLevel" =>
          last.result = TaxonomyLevel(last.risk, last.capability)

\* an override to L1 was returned for a CRITICAL tool
C21_Witness ==
    /\ last.op = "getTrustLevelForTool"
    /\ last.tool.risk = "CRITICAL"
    /\ last.tool.name \in DOMAIN last.overrides
    /\ last.result = "L1"

\* a HIGH risk tool without override and without side effects got L2
C21_WitnessInferred ==
    /\ last.op = "getTrustLevelForTool"
    /\ last.tool.name \notin DOMAIN last.overrides
    /\ last.tool.risk = "HIGH"
    /\ last.tool.capability = "READ"
    /\ last.result = "L2"

-----------------------------------------------------------------------------
(* Claims about eligibility at creation                                    *)

\* the request's action type or workflow name is in the set
Listed(r, list) == r.actionType \in list \/ r.workflowName \in list

\* C22 (amended): createRequest computes autoApproveEligible as false if the
\* trust level is not L3 (L4 and L0..L2 alike), otherwise false if the
\* verdict is not PASS, otherwise false if the action type or workflow name
\* is in the deny set, otherwise true if one of them is in the allow set,
\* otherwise false.
C22_Eligibility ==
    \A i \in 1..Len(requests) :
        requests[i].autoApproveEligible =
            (/\ requests[i].trustLevel = "L3"
             /\ requests[i].reviewerVerdict = "PASS"
             /\ ~Listed(requests[i], AUTO_APPROVE_DENY_LIST)
             /\ Listed(requests[i], AUTO_APPROVE_ALLOW_LIST))

\* C22 as stated: only L4 is excluded by its trust level
C22_AsStated ==
    \A i \in 1..Len(requests) :
        requests[i].autoApproveEligible =
            (/\ requests[i].trustLevel # "L4"
             /\ requests[i].reviewerVerdict = "PASS"
             /\ ~Listed(requests[i], AUTO_APPROVE_DENY_LIST)
             /\ Listed(requests[i], AUTO_APPROVE_ALLOW_LIST))

\* an L3 request is eligible through its workflow name alone, and an L2
\* request with the same verdict and names is not
C22_Witness ==
    /\ Len(requests) = 2
    /\ requests[1].trustLevel = "L3"
    /\ requests[1].actionType = "COMMIT_UNLISTED"
    /\ requests[1].workflowName = "daily_ops_brief"
    /\ requests[1].autoApproveEligible
    /\ requests[2].trustLevel = "L2"
    /\ requests[2].actionType = "COMMIT_UNLISTED"
    /\ requests[2].workflowName = "daily_ops_brief"
    /\ requests[2].reviewerVerdict = "PASS"
    /\ ~requests[2].autoApproveEligible

-----------------------------------------------------------------------------
(* Claims about the validation of the gate's inputs                        *)

\* the tool definition is malformed: empty name, or capability or risk
\* outside the enumerations
MalformedTool(tool) ==
    \/ tool.name = ""
    \/ tool.capability \notin {"READ", "PROPOSE", "WRITE", "SIDE_EFFECTS"}
    \/ tool.risk \notin {"LOW", "MEDIUM", "HIGH", "CRITICAL"}

\* C23: evaluate denies, with reported trust level L4, every call with a
\* malformed tool definition, an unrecognised stage or a context without
\* agent name or run id.
C23_InvalidInputDenied ==
    (/\ last.op = "evaluate"
     /\ \/ MalformedTool(last.tool)
        \/ last.stage \notin {"plan", "execute", "review", "commit"}
        \/ last.context.agentName = ""
        \/ last.context.runId = "") =>
        /\ ~last.result.allowed
        /\ last.result.trustLevel = "L4"

\* C23 without the closed enumerations: an empty name, an unrecognised stage
\* and a context without agent name or run id are denied with level L4
C23_CheckedInputDenied ==
    (/\ last.op = "evaluate"
     /\ \/ last.tool.name = ""
        \/ last.stage \notin {"plan", "execute", "review", "commit"}
        \/ last.context.agentName = ""
        \/ last.context.runId = "") =>
        /\ ~last.result.allowed
        /\ last.result.trustLevel = "L4"

\* a tool with a risk outside the enumeration was allowed at level L0
C23_UnknownRiskAllowed ==
    /\ last.op = "evaluate"
    /\ last.tool.risk = "SEVERE"
    /\ last.result.allowed
    /\ last.result.trustLevel = "L0"

\* a tool with a capability outside the enumeration was denied, but with the
\* level of its risk
C23_UnknownCapabilityLevel ==
    /\ last.op = "evaluate"
    /\ last.tool.capability = "EXECUTE"
    /\ last.tool.risk = "LOW"
    /\ ~last.result.allowed
    /\ last.result.trustLevel = "L0"

\* a call without run id was denied with level L4
C23_DeniedWithoutRunId ==
    /\ last.op = "evaluate"
    /\ last.context.runId = ""
    /\ last.tool.name # ""
    /\ last.stage = "plan"
    /\ ~last.result.allowed
    /\ last.result.trustLevel = "L4"

-----------------------------------------------------------------------------
(* Claims about a failing approval store and a failing logger              *)

\* the gate of this call queries the store: the router has one and the
\* basic evaluation requires approval
GateQueriesStore(request) ==
    /\ request.toolName \in Handlers
    /\ router.store
    /\ Evaluate(Tools[request.toolName], request.stage, request).requiresApproval

\* C24: when the approval store raises while the gate or the commit
\* boundary queries it, the call is denied (gate not allowed, or boundary
\* not eligible) with the store error as the reported error, the handler
\* does not run and call returns a result; verifyCommitEligibility itself
\* answers not eligible with the store error as reason.
C24_StoreErrorDenies ==
    [][/\ \A request \in FaultCallRequests, env \in FaultEnvs :
            (last'.op = "call" /\ last'.request = request /\ Call(request, env)) =>
              /\ last'.outcome # "exception"
              /\ (GateQueriesStore(request) /\ env.store = "error") =>
                   /\ last'.outcome = "gate_denied"
                   /\ ~last'.gate.allowed
                   /\ last'.gate.reason = "store_error"
                   /\ last'.error = "store_error"
                   /\ ~last'.handlerInvoked
              /\ (/\ last'.gate.allowed /\ last'.gate.isCommitTool
                  /\ router.boundary /\ IsCommitTool(request.toolName)
                  /\ env.boundaryStore = "error") =>
                   /\ last'.outcome = "boundary_denied"
                   /\ last'.eligible = "no"
                   /\ last'.error = "store_error"
                   /\ ~last'.handlerInvoked
       /\ \A n \in CommitToolNames, env \in FaultEnvs :
            (/\ last'.op = "verify" /\ last'.toolName = n
             /\ VerifyCommitEligibilityCall("run-1", n, env)
             /\ IsCommitTool(n) /\ env.boundaryStore = "error") =>
              /\ ~last'.eligible
              /\ last'.outcome = "store_error"]_vars

\* the gate's query failed and the call was denied at the gate
C24_Witness ==
    /\ last.op = "call"
    /\ last.outcome = "gate_denied"
    /\ last.gate.reason = "store_error"
    /\ ~last.handlerInvoked

\* the gate found an approved request and the boundary's query failed
C24_WitnessBoundary ==
    /\ last.op = "call"
    /\ last.outcome = "boundary_denied"
    /\ last.gate.allowed
    /\ last.gate.approvalStatus = "APPROVED"
    /\ last.error = "store_error"
    /\ ~last.handlerInvoked

\* verifyCommitEligibility answered a failing store
C24_WitnessVerify ==
    /\ last.op = "verify"
    /\ last.outcome = "store_error"
    /\ ~last.eligible

\* the same environment with a working logger
WithLogger(env) == [env EXCEPT !.logger = "ok"]

\* C25: a call under a logger that raises or rejects the event returns the
\* outcome, success flag, error and gate decision of the same call under a
\* working logger, with the same handler invocation, and nothing escapes
\* call.
C25_AuditFailureHarmless ==
    [][\A request \in FaultCallRequests, env \in FaultEnvs :
          (/\ last'.op = "call" /\ last'.request = request
           /\ env.logger # "ok" /\ Call(request, env)) =>
            LET r == CallResult(router, request, WithLogger(env), requests,
                                stagedChanges, dockerCache, dockerDaemon, now)
            IN  /\ last'.outcome = r.outcome
                /\ last'.success = r.success
                /\ last'.error = r.error
                /\ last'.gate = r.gate
                /\ last'.handlerInvoked = r.handlerInvoked
                /\ last'.outcome # "exception"]_vars

\* the logger failed, no event was kept, and the handler's success was
\* returned
C25_Witness ==
    /\ last.op = "call"
    /\ last.outcome = "executed"
    /\ last.success
    /\ last.handlerInvoked
    /\ ~last.logged
    /\ events = <<>>
    /\ last.request.workflowName # ""
    /\ last.request.toolName = "asi.get_bookings"

-----------------------------------------------------------------------------
(* Claims about the staged change ledger                                   *)

\* an execute with the given sandbox id that ran the handler successfully
RanHandler(input, env) ==
    /\ last'.op = "execute"
    /\ last'.input = input
    /\ Execute(input, env)
    /\ input.sandboxId # "NONE"
    /\ last'.run.handlerInvoked
    /\ last'.run.success

\* C26: every successful execute that runs the handler under a sandbox id
\* adds one staged change to that sandbox id, so that n such calls without
\* commit, rollback or cleanup leave n staged changes, whichever sandbox
\* implementation ran the handler.
C26_StagedAccumulate ==
    [][\A input \in LedgerExecuteInputs, env \in LedgerEnvs :
          RanHandler(input, env) =>
            StagedCount(router.sandbox, stagedChanges', input.sandboxId)
              = StagedCount(router.sandbox, stagedChanges, input.sandboxId) + 1]_vars

\* C26 for the Docker sandbox running the handler directly
C26_DockerAccumulates ==
    [][\A input \in LedgerExecuteInputs, env \in LedgerEnvs :
          (router.sandbox # "passthrough" /\ RanHandler(input, env)) =>
            StagedCount(router.sandbox, stagedChanges', input.sandboxId)
              = StagedCount(router.sandbox, stagedChanges, input.sandboxId) + 1]_vars

\* two successful executes of the Docker sandbox left two staged changes
C26_TwoStagedInDocker ==
    /\ router.sandbox = "docker_fallback"
    /\ last.op = "getStagedChanges"
    /\ last.length = 2

\* getStagedChanges of the passthrough sandbox never returns two changes
C26_PassthroughKeepsOne ==
    (router.sandbox = "passthrough" /\ last.op = "getStagedChanges") => last.length <= 1

\* every sandbox id other than sandboxId holds what it held
OthersUnchanged(sandboxId) ==
    \A o \in SandboxIds \ {sandboxId} :
        /\ o \in DOMAIN stagedChanges' <=> o \in DOMAIN stagedChanges
        /\ StagedCount(router.sandbox, stagedChanges', o)
             = StagedCount(router.sandbox, stagedChanges, o)

\* C27: commitChanges, rollbackChanges and cleanup on a sandbox id leave it
\* without staged changes and leave every other sandbox id as it was;
\* execute changes no sandbox id other than the one it runs under.
C27_LedgerFrame ==
    [][/\ \A s \in SandboxIds :
            (/\ last'.op \in {"commitChanges", "rollbackChanges", "cleanup"}
             /\ last'.sandboxId = s
             /\ (CommitChangesCall(s) \/ RollbackChanges(s) \/ Cleanup(s))) =>
              /\ StagedCount(router.sandbox, stagedChanges', s) = 0
              /\ s \notin DOMAIN stagedChanges'
              /\ OthersUnchanged(s)
       /\ \A input \in LedgerExecuteInputs, env \in LedgerEnvs :
            (last'.op = "execute" /\ last'.input = input /\ Execute(input, env)) =>
              OthersUnchanged(SandboxIdFor(stagedChanges, input.sandboxId))]_vars

\* a rollback dropped two staged changes at once while the other sandbox id
\* kept its own
C27_Witness ==
    /\ last.op = "rollbackChanges"
    /\ last.dropped = 2
    /\ last.sandboxId \notin DOMAIN stagedChanges
    /\ \E o \in SandboxIds \ {last.sandboxId} : o \in DOMAIN stagedChanges

\* an execute added a change while the other sandbox id held changes
C27_WitnessExecute ==
    /\ last.op = "execute"
    /\ last.run.staged # "none"
    /\ last.input.sandboxId = "sb-2"
    /\ "sb-1" \in DOMAIN stagedChanges

-----------------------------------------------------------------------------
(* Claims about the sandbox factory                                        *)

\* C28: createSandbox returns the passthrough sandbox when NODE_ENV is
\* test, and when NODE_ENV is development with the sandbox-enabled flag
\* false; in every other environment it returns the Docker sandbox that
\* denies when Docker is unavailable when NODE_ENV is production or the
\* fail-closed flag is set.
C28_FactorySelection ==
    last.op = "createSandbox" =>
      /\ last.nodeEnv = "test" => last.result = "passthrough"
      /\ (last.nodeEnv = "development" /\ ~SandboxEnabled(last.enabledValue)) =>
           last.result = "passthrough"
      /\ (/\ last.nodeEnv = "production" \/ FailClosedFlag(last.failClosedValue)
          /\ last.nodeEnv # "test"
          /\ ~(last.nodeEnv = "development" /\ ~SandboxEnabled(last.enabledValue))) =>
           last.result = "docker_fail_closed"

\* C28 with each of its three cases taken for every combination
C28_AsStated ==
    last.op = "createSandbox" =>
      /\ last.nodeEnv = "test" => last.result = "passthrough"
      /\ (last.nodeEnv = "development" /\ ~SandboxEnabled(last.enabledValue)) =>
           last.result = "passthrough"
      /\ (last.nodeEnv = "production" \/ FailClosedFlag(last.failClosedValue)) =>
           last.result = "docker_fail_closed"

\* the fail-closed flag selected the denying Docker sandbox outside production
C28_Witness ==
    /\ last.op = "createSandbox"
    /\ last.nodeEnv = "staging"
    /\ FailClosedFlag(last.failClosedValue)
    /\ last.result = "docker_fail_closed"

\* development with the sandbox disabled got the passthrough sandbox
\* although the fail-closed flag was set
C28_WitnessPassthroughDespiteFlag ==
    /\ last.op = "createSandbox"
    /\ last.nodeEnv = "development"
    /\ FailClosedFlag(last.failClosedValue)
    /\ last.result = "passthrough"

-----------------------------------------------------------------------------
(* Claims about the adapter registry and mergeAdapters                     *)

\* C29: register throws for an adapter that fails validation and for an
\* adapter whose domain is already registered, leaving the registry as it
\* was, and stores any other adapter under its domain; unregister and clear
\* only remove; so every adapter the registry holds is valid and is the
\* only one of its domain.
C29_RegisterRejects ==
    [][/\ \A adapter \in Adapters :
            (last'.op = "register" /\ last'.adapter = adapter /\ Register(adapter)) =>
              IF ~ValidateDomainAdapter(adapter) \/ adapter.domain \in DOMAIN adapters
              THEN last'.outcome = "threw" /\ adapters' = adapters
              ELSE /\ last'.outcome = "returned"
                   /\ DOMAIN adapters' = DOMAIN adapters \cup {adapter.domain}
                   /\ adapters'[adapter.domain] = adapter
                   /\ \A d \in DOMAIN adapters : adapters'[d] = adapters[d]
       /\ \A d \in DOMAIN adapters' :
            /\ adapters'[d].domain = d
            /\ ValidateDomainAdapter(adapters'[d])
            /\ d \in DOMAIN adapters => adapters'[d] = adapters[d]]_vars

\* a second adapter of a registered domain was rejected and the first one
\* is still held
C29_Witness ==
    /\ last.op = "register"
    /\ last.outcome = "threw"
    /\ last.error = "duplicate"
    /\ last.adapter.domain \in DOMAIN adapters
    /\ adapters[last.adapter.domain] # last.adapter

\* an adapter failing validation was rejected while its domain was free
C29_WitnessInvalid ==
    /\ last.op = "register"
    /\ last.outcome = "threw"
    /\ last.error = "invalid"
    /\ last.adapter.domain = "asi"
    /\ "asi" \notin DOMAIN adapters

\* a domain was registered again after unregister, with another adapter
C29_WitnessBothDomains ==
    /\ last.op = "register"
    /\ last.outcome = "returned"
    /\ DOMAIN adapters = {"asi", "land"}

\* the positions of list whose adapter defines the hook, in ascending order
RECURSIVE Defined(_, _, _)
Defined(list, field, i) ==
    IF i > Len(list) THEN <<>>
    ELSE IF list[i][field] = "NONE" THEN Defined(list, field, i + 1)
    ELSE <<i>> \o Defined(list, field, i + 1)

\* C30: one invocation of the merged onInitialize calls every onInitialize
\* hook the given adapters define, once each, in argument order; one
\* invocation of the merged onShutdown calls every onShutdown hook they
\* define, once each, in reverse argument order.
C30_HookOrder ==
    /\ last.op = "onInitialize" =>
         last.called = Defined(last.list, "onInitialize", 1)
    /\ last.op = "onShutdown" =>
         last.called = Reversed(Defined(last.list, "onShutdown", 1))

\* C30 for invocations in which no hook rejects
C30_HookOrderWhenResolved ==
    /\ (last.op = "onInitialize" /\ last.outcome = "resolved") =>
         last.called = Defined(last.list, "onInitialize", 1)
    /\ (last.op = "onShutdown" /\ last.outcome = "resolved") =>
         last.called = Reversed(Defined(last.list, "onShutdown", 1))

\* no invocation calls a hook twice or out of order
C30_NeverTwice ==
    last.op \in {"onInitialize", "onShutdown"} =>
      \A i, j \in 1..Len(last.called) :
          i < j => IF last.op = "onInitialize" THEN last.called[i] < last.called[j]
                   ELSE last.called[i] > last.called[j]

\* three shutdown hooks ran in reverse order
C30_ThreeInReverse ==
    /\ last.op = "onShutdown"
    /\ last.called = <<3, 2, 1>>

\* the last adapter's onShutdown rejected and the first one's never ran
C30_ShutdownCutShort ==
    /\ last.op = "onShutdown"
    /\ last.outcome = "rejected"
    /\ last.called = <<2>>
    /\ last.list[1].onShutdown = "resolves"

-----------------------------------------------------------------------------
(* Claims about tool registration                                          *)

\* C31: registerTool stores neither an ill-formed definition nor its
\* handler, and does not replace the definition and handler already
\* registered under a name.
C31_RegistrationChecked ==
    [][\A definition \in ToolDefinitions, handler \in ToolHandlers :
          (/\ last'.op = "registerTool" /\ last'.definition = definition
           /\ last'.handler = handler /\ RegisterTool(definition, handler)) =>
            /\ ~ToolDefinitionWellFormed(definition) =>
                 registeredTools' = registeredTools
            /\ definition.name \in DOMAIN registeredTools =>
                 registeredTools' = registeredTools]_vars

\* a well-formed definition registered under a free name is stored with its
\* handler and no other entry changes
C31_FreshRegistrationStored ==
    [][\A definition \in ToolDefinitions, handler \in ToolHandlers :
          (/\ last'.op = "registerTool" /\ last'.definition = definition
           /\ last'.handler = handler /\ RegisterTool(definition, handler)
           /\ definition.name \notin DOMAIN registeredTools) =>
            /\ registeredTools'[definition.name]
                 = [definition |-> definition, handler |-> handler]
            /\ \A n \in DOMAIN registeredTools :
                   registeredTools'[n] = registeredTools[n]]_vars

\* a definition with a capability outside the enumeration is held
C31_IllFormedStored ==
    \E n \in DOMAIN registeredTools :
        registeredTools[n].definition.capability \notin Capabilities

\* a definition is held under the empty name
C31_EmptyNameStored == "" \in DOMAIN registeredTools

\* a registration replaced the definition and handler held under its name
C31_DefinitionReplaced ==
    /\ last.op = "registerTool"
    /\ last.replaced
    /\ last.definition.capability = "WRITE"
    /\ registeredTools[last.definition.name]
         = [definition |-> last.definition, handler |-> last.handler]

-----------------------------------------------------------------------------
(* Claims about the requests matched by the gate                           *)

\* request i is the orchestrator's request of run-1 for commit tool n,
\* APPROVED with verdict PASS
ApprovedFor(i, n) ==
    /\ requests[i].runId = "run-1"
    /\ requests[i].actionType = COMMIT_TOOLS[n].actionType
    /\ requests[i].status = "APPROVED"
    /\ requests[i].reviewerVerdict = "PASS"

\* C32: when the run holds an APPROVED request with verdict PASS whose
\* action type is the registered action type of a commit tool,
\* evaluateWithApproval allows that tool in the commit stage of the run.
C32_OrchestratorRequestMatches ==
    [][\A n \in DOMAIN COMMIT_TOOLS :
          (/\ last'.op = "evaluateWithApproval" /\ last'.tool.name = n
           /\ EvaluateWithApprovalCall(CommitToolDefinition(n), "commit",
                  ToolCall(n, "commit", "test_workflow"), "ok")
           /\ \E i \in 1..Len(requests) : ApprovedFor(i, n)) =>
            last'.result.allowed]_vars

\* no request created by the orchestrator is ever found by the gate
C32_NeverMatched ==
    last.op = "evaluateWithApproval" =>
      /\ ~last.result.allowed
      /\ last.result.approvalId = 0

\* the gate answered that an approval request is required although the run
\* holds the approved request of the tool
C32_ApprovedButRequired ==
    /\ last.op = "evaluateWithApproval"
    /\ last.result.reason = "approval_request_required"
    /\ \E i \in 1..Len(requests) : ApprovedFor(i, last.tool.name)

-----------------------------------------------------------------------------
(* Claims about the Supabase store                                         *)

\* C33: a decision row is inserted only for a request that is PENDING when
\* the row is inserted, and a request that is EXPIRED stays EXPIRED and
\* without decision.
C33_DecisionOnlyWhilePending ==
    [][/\ \A i \in 1..Len(requests) :
            requests[i].status = "EXPIRED" =>
              /\ requests'[i].status = "EXPIRED"
              /\ i \notin DOMAIN decisions'
       /\ \A i \in DOMAIN decisions' \ DOMAIN decisions :
            requests[i].status = "PENDING"]_vars

\* at most one decision is ever stored for a request, and a stored decision
\* is never replaced
C33_DecisionKept ==
    [][\A i \in DOMAIN decisions :
          i \in DOMAIN decisions' /\ decisions'[i] = decisions[i]]_vars

\* a decision was inserted for a request the sweep had set to EXPIRED
C33_DecidedAfterExpired ==
    /\ last.op = "createDecision"
    /\ last.outcome = "decision"
    /\ last.statusAtInsert = "EXPIRED"
    /\ requests[last.id].status \in {"APPROVED", "REJECTED"}

\* the UNIQUE constraint holds: no insert is stored for a request that
\* already has its decision
C33_NeverDecidedTwice ==
    ~ (/\ last.op = "createDecision"
       /\ last.outcome = "decision"
       /\ last.statusAtInsert \in {"APPROVED", "REJECTED"})

-----------------------------------------------------------------------------
(* Claims about the turns of an agent                                      *)

\* the step is a tool-use response that is the MaxTurns-th request of the
\* agent run to the model
LastTurnToolUse ==
    /\ workflowRun.pc = "agent"
    /\ workflowRun'.toolsCalled = workflowRun.toolsCalled + 1
    /\ workflowRun'.runAgentCalls = MaxTurns

-----------------------------------------------------------------------------
(* Claims about calls on expired approvals                                 *)

\* the step is a call that invoked the handler on the APPROVED request the
\* gate found, at an instant after that request's expiry
RanOnExpiredApproval(request, env) ==
    /\ last'.op = "call" /\ last'.request = request
    /\ Call(request, env)
    /\ last'.handlerInvoked
    /\ last'.id # 0
    /\ requests[last'.id].status = "APPROVED"
    /\ now > requests[last'.id].expiresAt

\* C35: no call invokes the handler on an APPROVED request whose expiry
\* time has passed, with or without a commit boundary, for commit tools and
\* for other tools that require approval.
C35_NoHandlerOnExpiredApproval ==
    [][\A request \in CommitCallRequests, env \in CommitEnvs :
          ~RanOnExpiredApproval(request, env)]_vars

\* where the commit boundary is configured, no call of a commit tool in the
\* commit stage invokes the handler on an expired approval
C35_BoundaryRefusesExpired ==
    [][\A request \in CommitCallRequests, env \in CommitEnvs :
          (router.boundary /\ IsCommitTool(request.toolName)
           /\ request.stage = "commit") =>
            ~RanOnExpiredApproval(request, env)]_vars

\* a commit tool ran without a boundary on an approval past its expiry
C35_CommitRanOnExpired ==
    /\ last.op = "call"
    /\ ~router.boundary
    /\ IsCommitTool(last.request.toolName)
    /\ last.handlerInvoked
    /\ last.id # 0
    /\ now > requests[last.id].expiresAt

\* a tool outside the commit registry ran under a boundary on an approval
\* past its expiry
C35_OtherToolRanOnExpired ==
    /\ last.op = "call"
    /\ router.boundary
    /\ ~IsCommitTool(last.request.toolName)
    /\ last.handlerInvoked
    /\ last.id # 0
    /\ now > requests[last.id].expiresAt

-----------------------------------------------------------------------------
(* Claims about status and decision                                        *)

\* C36: in every state of the store a request is APPROVED exactly when a
\* decision APPROVE is recorded for it, REJECTED exactly when a decision
\* REJECT is recorded for it, and PENDING or EXPIRED exactly when no
\* decision is recorded for it; no decision is recorded for a request that
\* does not exist.
C36_StatusMatchesDecision ==
    /\ DOMAIN decisions \subseteq 1..Len(requests)
    /\ \A i \in 1..Len(requests) :
         /\ requests[i].status = "APPROVED"
              <=> (i \in DOMAIN decisions /\ decisions[i].decision = "APPROVE")
         /\ requests[i].status = "REJECTED"
              <=> (i \in DOMAIN decisions /\ decisions[i].decision = "REJECT")
         /\ requests[i].status \in {"PENDING", "EXPIRED"}
              <=> i \notin DOMAIN decisions

\* one request was decided and another expired undecided
C36_Witness ==
    \E i, j \in 1..Len(requests) :
        /\ i \in DOMAIN decisions
        /\ requests[i].status = StatusFor(decisions[i].decision)
        /\ requests[j].status = "EXPIRED"
        /\ j \notin DOMAIN decisions

-----------------------------------------------------------------------------
(* Claims about the auto-approve reason                                    *)

\* no autoApprove of request i is between setting the reason and the end of
\* its createDecision
NoAutoApproveInFlight(i) ==
    \A c \in Callers :
        ~(calls[c].pc = "autoApprove.createDecision" /\ calls[c].id = i)

\* C37: once every autoApprove of a request has ended, the request carries
\* an auto-approve reason only if it is APPROVED by a decision made by
\* system:auto-approve.
C37_ReasonOnlyWhenAutoApproved ==
    \A i \in 1..Len(requests) :
        (requests[i].autoApproveReason # "NONE" /\ NoAutoApproveInFlight(i)) =>
            /\ requests[i].status = "APPROVED"
            /\ i \in DOMAIN decisions
            /\ decisions[i].decidedBy = "system:auto-approve"

\* every decision made by system:auto-approve is an APPROVE on a request
\* that carries the reason
C37_AutoDecisionHasReason ==
    \A i \in DOMAIN decisions :
        decisions[i].decidedBy = "system:auto-approve" =>
            /\ decisions[i].decision = "APPROVE"
            /\ requests[i].status = "APPROVED"
            /\ requests[i].autoApproveReason # "NONE"

\* a request decided by a human carries an auto-approve reason
C37_ReasonOnHumanDecision ==
    \E i \in DOMAIN decisions :
        /\ decisions[i].decidedBy = "human:alice"
        /\ requests[i].autoApproveReason # "NONE"
        /\ NoAutoApproveInFlight(i)

\* an expired request carries an auto-approve reason
C37_ReasonOnExpired ==
    \E i \in 1..Len(requests) :
        /\ requests[i].status = "EXPIRED"
        /\ requests[i].autoApproveReason # "NONE"
        /\ NoAutoApproveInFlight(i)

-----------------------------------------------------------------------------
(* Claims about which request of a run decides                             *)

\* the requests of the run the gate's find accepts for the tool
GateMatches(runId, toolName) ==
    {i \in 1..Len(requests) :
        /\ requests[i].runId = runId
        /\ \/ requests[i].actionType = toolName
           \/ IncludesLastSegment(requests[i].actionType, toolName)}

\* the requests of the run the boundary's find accepts for the commit tool
BoundaryMatches(runId, toolName) ==
    {i \in 1..Len(requests) :
        /\ requests[i].runId = runId
        /\ \/ requests[i].actionType = toolName
           \/ requests[i].actionType = COMMIT_TOOLS[toolName].actionType}

\* the earliest-created request of a non-empty set of requests
Earliest(ids) == CHOOSE i \in ids : \A j \in ids : i <= j

\* C38: the gate and the commit boundary decide on the earliest-created
\* request of the run that matches the tool: the request they report is that
\* one, and when it is not APPROVED the call does not run the handler and
\* the boundary answers not eligible, whatever later matching requests say.
C38_EarliestRequestDecides ==
    [][/\ \A request \in CommitCallRequests, env \in CommitEnvs :
            (/\ last'.op = "call" /\ last'.request = request
             /\ Call(request, env)
             /\ env.store = "ok"
             /\ GateMatches(request.runId, request.toolName) # {}) =>
              /\ last'.gate.approvalId
                    = Earliest(GateMatches(request.runId, request.toolName))
              /\ requests[last'.gate.approvalId].status # "APPROVED" =>
                    ~last'.gate.allowed /\ ~last'.handlerInvoked
       /\ \A n \in CommitToolNames, env \in CommitEnvs :
            (/\ last'.op = "verify" /\ last'.toolName = n
             /\ VerifyCommitEligibilityCall("run-1", n, env)
             /\ IsCommitTool(n)
             /\ env.boundaryStore = "ok"
             /\ BoundaryMatches("run-1", n) # {}) =>
              /\ last'.id = Earliest(BoundaryMatches("run-1", n))
              /\ requests[last'.id].status # "APPROVED" => ~last'.eligible]_vars

\* a call was denied on its earliest matching request although a later
\* matching request of the run is APPROVED with verdict PASS
C38_Witness ==
    /\ last.op = "call"
    /\ ~last.handlerInvoked
    /\ last.id = 1
    /\ requests[1].status \in {"REJECTED", "EXPIRED", "PENDING"}
    /\ Len(requests) = 2
    /\ 2 \in GateMatches(last.request.runId, last.request.toolName)
    /\ requests[2].status = "APPROVED"
    /\ requests[2].reviewerVerdict = "PASS"

\* the boundary refused on its earliest matching request although a later
\* matching request of the run is APPROVED with verdict PASS
C38_WitnessBoundary ==
    /\ last.op = "verify"
    /\ ~last.eligible
    /\ last.id = 1
    /\ requests[1].status \in {"REJECTED", "EXPIRED", "PENDING"}
    /\ Len(requests) = 2
    /\ 2 \in BoundaryMatches("run-1", last.toolName)
    /\ requests[2].status = "APPROVED"
    /\ requests[2].reviewerVerdict = "PASS"

-----------------------------------------------------------------------------
(* Claims about applying staged changes once                               *)

\* C39: after a successful executeCommit of apply_changes that counted
\* staged changes as applied, the ledger of the sandbox they were read from
\* is empty, and no second executeCommit counts the same changes again.
C39_LedgerEmptyAfterApply ==
    [][\A s \in SandboxArgs, env \in CommitEnvs :
          (/\ last'.op = "commit" /\ last'.sandboxArg = s
           /\ ExecuteCommitApplyChanges("run-1", s, env)
           /\ last'.success
           /\ last'.changesApplied > 0) =>
            /\ StagedCount(router.sandbox, stagedChanges', last'.countedSandbox) = 0
            /\ ~last'.repeated]_vars

\* when the args name the sandbox of the approval request, the ledger the
\* changes were counted from is empty after the commit
C39_EmptyWhenArgsNameSandbox ==
    [][\A s \in SandboxArgs, env \in CommitEnvs :
          (/\ last'.op = "commit" /\ last'.sandboxArg = s
           /\ ExecuteCommitApplyChanges("run-1", s, env)
           /\ last'.success
           /\ s = last'.countedSandbox) =>
            StagedCount(router.sandbox, stagedChanges', last'.countedSandbox) = 0]_vars

\* two successive executeCommit calls on the same approval both counted the
\* staged changes of the sandbox as applied
C39_AppliedTwice ==
    /\ last.op = "commit"
    /\ last.toolName = "asi.commit_apply_changes"
    /\ last.success
    /\ last.repeated
    /\ last.changesApplied > 0

\* the commit dropped the ledger of another sandbox than the one it counted
C39_OtherLedgerDropped ==
    /\ last.op = "commit"
    /\ last.toolName = "asi.commit_apply_changes"
    /\ last.success
    /\ last.sandboxArg = "sb-2"
    /\ last.countedSandbox = "sb-1"
    /\ "sb-1" \in DOMAIN stagedChanges
    /\ "sb-2" \notin DOMAIN stagedChanges
    /\ Len(events) = 1

-----------------------------------------------------------------------------
(* Claims about callParallel                                               *)

\* the position of the last request of the batch with the given tool name
LastWithName(batch, name) ==
    CHOOSE i \in 1..Len(batch) :
        /\ batch[i].toolName = name
        /\ \A j \in (i + 1)..Len(batch) : batch[j].toolName # name

\* the returned map has one entry per distinct tool name of the batch, the
\* result of the last request in batch order with that name
MapHoldsLastInBatchOrder(op) ==
    /\ DOMAIN op.map = {op.batch[i].toolName : i \in 1..Len(op.batch)}
    /\ \A name \in DOMAIN op.map :
         op.map[name] = op.results[LastWithName(op.batch, name)]

\* one call per request, and at most one handler invocation per request
OneCallPerRequest(op) ==
    /\ op.calls = Len(op.batch)
    /\ \A i \in 1..Len(op.batch) : op.results[i].outcome # "unsettled"
    /\ op.handlerInvocations
         = Cardinality({i \in 1..Len(op.batch) : op.results[i].handlerInvoked})

\* C40: callParallel makes one call per request of the batch, hence appends
\* one audit event and invokes at most one handler per request, and the map
\* it returns has one entry per distinct tool name, the result of the last
\* request in batch order with that name, in whatever order the calls
\* complete.
C40_OneCallAndEventPerRequest ==
    [][\A batch \in Batches : \A order \in CompletionOrders(Len(batch)) :
          (/\ last'.op = "callParallel" /\ last'.batch = batch /\ last'.order = order
           /\ CallParallel(batch, order)) =>
            /\ OneCallPerRequest(last')
            /\ Len(events') = Len(events) + Len(batch)
            /\ MapHoldsLastInBatchOrder(last')]_vars

\* C40 without the audit events of requests that lack a tool name or a
\* context: one call per request, one audit event per request that has
\* both, and the map holds the last result in batch order under each name
C40_MapHoldsLastInBatchOrder ==
    [][\A batch \in Batches : \A order \in CompletionOrders(Len(batch)) :
          (/\ last'.op = "callParallel" /\ last'.batch = batch /\ last'.order = order
           /\ CallParallel(batch, order)) =>
            /\ OneCallPerRequest(last')
            /\ Len(events') = Len(events)
                 + Cardinality({i \in 1..Len(batch) :
                                   batch[i].toolName # "" /\ batch[i].hasContext})
            /\ MapHoldsLastInBatchOrder(last')]_vars

\* a batch with a request without context returned fewer audit events than
\* it has requests
C40_RequestWithoutEvent ==
    /\ last.op = "callParallel"
    /\ last.logged < Len(last.batch)
    /\ \E i \in 1..Len(last.batch) :
         /\ ~last.batch[i].hasContext
         /\ ~last.results[i].logged
         /\ last.results[i].outcome = "invalid_request"

\* two requests with the same tool name and different results completed in
\* reverse batch order; the map holds the result of the later one in the batch
C40_LastInBatchWins ==
    /\ last.op = "callParallel"
    /\ Len(last.batch) = 3
    /\ last.order = <<3, 2, 1>>
    /\ last.batch[1].toolName = last.batch[3].toolName
    /\ last.results[1] # last.results[3]
    /\ last.map[last.batch[3].toolName] = last.results[3]
    /\ last.results[3].handlerInvoked
====
